---- MODULE Spec2Model ----
(***************************************************************************)
(* A model of the scoring and classification engine of the APM platform:   *)
(* the index aggregator (calculate_bvi_thi), the decision classifier       *)
(* (get_recommendation), the answer merge (smart_merge) and persistence    *)
(* (save_application_to_db), the per-session weight cache                  *)
(* (load_weights_from_db and the weight editor of page_calculator) and the *)
(* keyword evaluator (evaluate_answer_text).                               *)
(*                                                                         *)
(* Indices (BVI, THI) are kept in tenths: 38.0 is 380, 60.0 is 600.        *)
(* A dict is a function whose DOMAIN is the set of its keys.               *)
(* A text is a sequence of one-character strings.                          *)
(***************************************************************************)
EXTENDS Integers, Sequences, FiniteSets, TLC

VARIABLES
    scores,      \* {block_name: score} of the approved SynergyScore rows of one application
    weights,     \* {block_name: weight} handed to the aggregator as custom_weights
    aggOut,      \* what the last aggregation produced
    argBvi,      \* get_recommendation's bvi argument, in tenths
    argThi,      \* get_recommendation's thi argument, in tenths
    recAi,       \* ai_processor.get_recommendation's result
    recXl,       \* excel_generator.get_recommendation's result
    pipeline,    \* which answer resolver runs: "merge" (smart_merge), "save" (save_application_to_db)
    base_answers,\* smart_merge's base_answers dict {question: {"a", "s"}}
    mergeLog,    \* the last smart_merge call: its new_answers, the base before it
    applications,\* rows of the applications table
    answers,     \* rows of the questionnaire_answers table, in insertion order
    sess,        \* per user session: the save_application_to_db call in progress
    saveLog,     \* the last finished save: its app_data, the table before it
    answerPool,  \* the answer objects the uploaded workbooks may hold
    uploads,     \* the number of questionnaire uploads started
    active,      \* the user sessions that upload
    custom_weights_table, \* the custom_weights table: {block_name: weight}, empty when it has no row
    session_state,\* per user session: st.session_state, holding "custom_weights" once loaded
    calcLog,     \* the last BVI/THI computation of a page: its session, the weights it used
    lastEdit,    \* the last weight edit saved by the weight editor
    evalText,    \* the answer text handed to evaluate_answer_text
    evalOut,     \* what the two copies of evaluate_answer_text returned
    scoreApp,    \* calculate_score's app["answers"]: {question key: answer object}
    scoreOut,    \* what the two copies of calculate_score left in app["blocks"]
    detailIn,    \* the arguments of get_subcategory_and_priority_detail and the quick-win flag
    detailOut,   \* the subcategory and priority derived from them
    portfolio,   \* per application: its approved scores and its stored human decision
    storeLog,    \* the last operation on the portfolio and the decisions before it
    extracted,   \* the entries returned by transcript extraction
    transcriptOut,\* the transcript answers stored and those handed to score suggestion
    meetingDb,   \* the meeting_transcripts and transcript_answers tables
    batchLog,    \* the last transcript handler run: its files, what each did, the tables before
    matchIn,     \* the raw question text given to the matcher
    matchOut,    \* what each parser's matcher returned for it
    synergy,     \* rows of the synergy_scores table, in insertion order
    approvalLog, \* the last handler that touched the scores, and the rows before it
    sheetRows,   \* the rows of one questionnaire sheet
    sheetOut     \* the answers parse_wb and parse_sheet built from it

aggVars == <<scores, weights, aggOut>>
recVars == <<argBvi, argThi, recAi, recXl>>
mergeVars == <<base_answers, mergeLog>>
saveVars == <<applications, answers, sess, saveLog>>
resolveVars == <<pipeline, base_answers, mergeLog, applications, answers, sess, saveLog,
                 answerPool, uploads, active>>
cacheVars == <<custom_weights_table, session_state, calcLog, lastEdit>>
evalVars == <<evalText, evalOut>>
scoreVars == <<scoreApp, scoreOut>>
matrixVars == <<detailIn, detailOut>>
storeVars == <<portfolio, storeLog>>
transcriptVars == <<extracted, transcriptOut>>
batchVars == <<meetingDb, batchLog>>
matchVars == <<matchIn, matchOut>>
approvalVars == <<synergy, approvalLog>>
sheetVars == <<sheetRows, sheetOut>>
vars == <<scores, weights, aggOut, argBvi, argThi, recAi, recXl,
          pipeline, base_answers, mergeLog, applications, answers, sess, saveLog,
          answerPool, uploads, active,
          custom_weights_table, session_state, calcLog, lastEdit, evalText, evalOut,
          scoreApp, scoreOut, detailIn, detailOut, portfolio, storeLog,
          extracted, transcriptOut, meetingDb, batchLog, matchIn, matchOut,
          synergy, approvalLog, sheetRows, sheetOut>>

(***************************************************************************)
(* Dict helpers                                                            *)
(***************************************************************************)
EmptyDict == [k \in {} |-> 0]

Get(d, k, default) == IF k \in DOMAIN d THEN d[k] ELSE default

RECURSIVE SumOver(_, _)
SumOver(f, S) ==
    IF S = {} THEN 0
    ELSE LET x == CHOOSE y \in S : TRUE
         IN  f[x] + SumOver(f, S \ {x})

(***************************************************************************)
(* Question catalog                                                        *)
(***************************************************************************)
business_blocks == {"Strategic Fit", "Business Efficiency", "User Value", "Financial Value"}
tech_blocks == {"Architecture", "Operational Risk", "Maintainability", "Support Quality"}
Blocks == business_blocks \cup tech_blocks

SYNERGY_BLOCKS ==
    [b \in Blocks |->
        CASE b = "Strategic Fit" -> 30
          [] b = "Business Efficiency" -> 30
          [] b = "User Value" -> 20
          [] b = "Financial Value" -> 20
          [] b = "Architecture" -> 30
          [] b = "Operational Risk" -> 30
          [] b = "Maintainability" -> 25
          [] b = "Support Quality" -> 15]

MinScore == 1
MaxScore == 5
FallbackWeight == 25
IndexScale == 20
Threshold == 60

(***************************************************************************)
(* round(x, 1) of x = num / den * 20, as a number of tenths: the nearest   *)
(* tenth, a tie going to the even one.                                     *)
(***************************************************************************)
RoundHalfEven(n, d) ==
    LET q == n \div d
        r == n % d
    IN  IF 2 * r < d THEN q
        ELSE IF 2 * r > d THEN q + 1
        ELSE IF q % 2 = 0 THEN q ELSE q + 1

\* Round1 scaling the mean by 100 in the place of 20
Round1Percent(total, weight) == RoundHalfEven(total * 100 * 10, weight)

Round1(total, weight) == RoundHalfEven(total * IndexScale * 10, weight)

(***************************************************************************)
(* ai_processor.calculate_bvi_thi                                          *)
(***************************************************************************)
AiWeights(custom_weights) ==
    IF DOMAIN custom_weights # {} THEN custom_weights ELSE SYNERGY_BLOCKS

AiWeight(custom_weights, block) == Get(AiWeights(custom_weights), block, FallbackWeight)

AiScore(sc, block) == Get(sc, block, 1)

\* AiWeightSum with every block counted at the fallback weight
AiWeightSumUnweighted(custom_weights, group) ==
    SumOver([b \in group |-> FallbackWeight], group)

AiWeightSum(custom_weights, group) ==
    SumOver([b \in group |-> AiWeight(custom_weights, b)], group)

AiScoreSum(sc, custom_weights, group) ==
    SumOver([b \in group |-> AiScore(sc, b) * AiWeight(custom_weights, b)], group)

AiIndex(sc, custom_weights, group) ==
    IF AiWeightSum(custom_weights, group) > 0
    THEN Round1(AiScoreSum(sc, custom_weights, group), AiWeightSum(custom_weights, group))
    ELSE 0

AiCalculateBviThi(sc, custom_weights) ==
    <<AiIndex(sc, custom_weights, business_blocks), AiIndex(sc, custom_weights, tech_blocks)>>

(***************************************************************************)
(* excel_generator.calculate_bvi_thi                                       *)
(***************************************************************************)
XlWeights(custom_weights) ==
    IF DOMAIN custom_weights # {} THEN custom_weights ELSE SYNERGY_BLOCKS

XlWeight(custom_weights, block) == Get(XlWeights(custom_weights), block, SYNERGY_BLOCKS[block])

XlScore(sc, block) == Get(sc, block, 0)

XlWeightSum(custom_weights, group) ==
    SumOver([b \in group |-> XlWeight(custom_weights, b)], group)

XlScoreSum(sc, custom_weights, group) ==
    SumOver([b \in group |-> XlScore(sc, b) * XlWeight(custom_weights, b)], group)

XlIndex(sc, custom_weights, group) ==
    IF XlWeightSum(custom_weights, group) > 0
    THEN Round1(XlScoreSum(sc, custom_weights, group), XlWeightSum(custom_weights, group))
    ELSE 0

XlCalculateBviThi(sc, custom_weights) ==
    <<XlIndex(sc, custom_weights, business_blocks), XlIndex(sc, custom_weights, tech_blocks)>>

(***************************************************************************)
(* get_recommendation, in ai_processor and in excel_generator; the indices  *)
(* are tenths, so the threshold 60 is compared as 600.                     *)
(***************************************************************************)
\* AiGetRecommendation with the threshold exclusive
AiGetRecommendationStrict(bvi, thi) ==
    IF bvi > Threshold * 10 /\ thi > Threshold * 10 THEN "EVOLVE"
    ELSE IF bvi > Threshold * 10 /\ thi <= Threshold * 10 THEN "INVEST"
    ELSE IF bvi <= Threshold * 10 /\ thi > Threshold * 10 THEN "MAINTAIN"
    ELSE "ELIMINATE"

AiGetRecommendation(bvi, thi) ==
    IF bvi >= Threshold * 10 /\ thi >= Threshold * 10 THEN "EVOLVE"
    ELSE IF bvi >= Threshold * 10 /\ thi < Threshold * 10 THEN "INVEST"
    ELSE IF bvi < Threshold * 10 /\ thi >= Threshold * 10 THEN "MAINTAIN"
    ELSE "ELIMINATE"

XlGetRecommendation(bvi, thi) ==
    IF bvi >= Threshold * 10 /\ thi >= Threshold * 10 THEN "EVOLVE"
    ELSE IF bvi >= Threshold * 10 /\ thi < Threshold * 10 THEN "INVEST"
    ELSE IF bvi < Threshold * 10 /\ thi >= Threshold * 10 THEN "MAINTAIN"
    ELSE "ELIMINATE"

(***************************************************************************)
(* Texts: str.strip() and the answer texts the workbooks of the model hold *)
(* (trimmed lengths 0, 1, 2, 4, 5 and 6).                                  *)
(***************************************************************************)
Whitespace == {" "}

RECURSIVE LStrip(_)
LStrip(t) == IF t # <<>> /\ Head(t) \in Whitespace THEN LStrip(Tail(t)) ELSE t

RECURSIVE RStrip(_)
RStrip(t) ==
    IF t # <<>> /\ t[Len(t)] \in Whitespace THEN RStrip(SubSeq(t, 1, Len(t) - 1)) ELSE t

Strip(t) == RStrip(LStrip(t))

TextEmpty == <<>>
TextN == <<" ", "n", " ">>
TextNo == <<"n", "o">>
TextOkay == <<" ", "o", "k", "a", "y", " ">>
TextCloud == <<"c", "l", "o", "u", "d">>
TextLegacy == <<"l", "e", "g", "a", "c", "y">>

\* the "s" of an answer object without a score (None)
NoScore == 0

AnswerObjects ==
    {[a |-> t, s |-> NoScore] : t \in {TextEmpty, TextN, TextNo, TextLegacy}}
    \cup {[a |-> TextOkay, s |-> 2], [a |-> TextCloud, s |-> 3]}

SmallAnswerObjects ==
    {[a |-> t, s |-> NoScore] : t \in {TextEmpty, TextCloud}}

Questions == {"Which OPCOs use the application?", "Is usage mandatory or optional for users?"}

BlockOf(q) == IF q = "Which OPCOs use the application?" THEN "Strategic Fit" ELSE "User Value"

\* the {question: answer object} dicts a parsed sheet may hold
AnswerDicts(pool) == UNION {[S -> pool] : S \in SUBSET Questions}

(***************************************************************************)
(* app.py smart_merge                                                      *)
(***************************************************************************)
MinMergeLen == 1

SmartMergeValid(data) == Len(data.a) > 0 /\ Len(Strip(data.a)) > MinMergeLen

smart_merge(base, new) ==
    LET valid == {q \in DOMAIN new : SmartMergeValid(new[q])}
    IN  [q \in DOMAIN base \cup valid |-> IF q \in valid THEN new[q] ELSE base[q]]

(***************************************************************************)
(* webapp/app.py save_application_to_db over the applications and          *)
(* questionnaire_answers tables                                            *)
(***************************************************************************)
Sessions == {"s1", "s2"}
MaxUploads == 3
AppName == "Kaffa"
MinAnswerLen == 5

AppDatas(pool) ==
    {[name |-> AppName,
      answers |-> [q \in DOMAIN d |-> [a |-> d[q].a, s |-> d[q].s, block |-> BlockOf(q)]]] :
        d \in AnswerDicts(pool)}

\* session.query(Application).filter_by(name=...).first()
ExistingApp(name) == {r \in applications : r.name = name}

\* session.query(QuestionnaireAnswer).filter_by(application_id, question_text).first():
\* the index of the first matching row, 0 for None
\* FirstAnswer when the lookup never matches
FirstAnswerNone(rows, app_id, question) == 0

FirstAnswer(rows, app_id, question) ==
    LET hits == {i \in 1..Len(rows) :
                    rows[i].application_id = app_id /\ rows[i].question_text = question}
    IN  IF hits = {} THEN 0 ELSE CHOOSE i \in hits : \A j \in hits : i <= j

\* IsIncomplete without the completeness test: every stored answer may be replaced
IsIncompleteAlways(answer_text) == TRUE

IsIncomplete(answer_text) == Len(answer_text) = 0 \/ Len(Strip(answer_text)) < MinAnswerLen

\* HasContent without the length test
HasContentAny(answer_text) == Len(answer_text) > 0

HasContent(answer_text) == Len(answer_text) > 0 /\ Len(Strip(answer_text)) >= MinAnswerLen

NewAnswerRow(app_id, question, answer_obj) ==
    [application_id |-> app_id, question_text |-> question,
     answer_text |-> answer_obj.a, score |-> answer_obj.s, synergy_block |-> answer_obj.block]

UpdatedRow(row, answer_obj) ==
    [row EXCEPT !.answer_text = answer_obj.a, !.score = answer_obj.s,
                !.synergy_block = answer_obj.block]

SessIdle ==
    [pc |-> "idle", app_data |-> [name |-> AppName, answers |-> EmptyDict], app_id |-> "",
     new_app |-> FALSE, todo |-> {}, adds |-> <<>>, updates |-> EmptyDict, before |-> <<>>,
     again |-> FALSE]

NoSave ==
    [done |-> FALSE, ok |-> FALSE, app_data |-> [name |-> AppName, answers |-> EmptyDict],
     before |-> <<>>, repeated |-> FALSE]

NoMerge == [done |-> FALSE, new |-> EmptyDict, before |-> EmptyDict, repeated |-> FALSE]

(***************************************************************************)
(* Inputs of the aggregator: the approved scores of one application (any   *)
(* subset of the blocks of one group scored 1..5, the other group unscored *)
(* or all at 3) and a weight configuration.                                *)
(***************************************************************************)
NotRun == [op |-> "none", shown |-> FALSE, bvi |-> 0, thi |-> 0, rec |-> ""]

GroupScoreMaps(group) == UNION {[S -> MinScore..MaxScore] : S \in SUBSET group}

UniformScoreMaps(group) == {[b \in {} |-> 3], [b \in group |-> 3]}

InputScores ==
    {f @@ g : f \in GroupScoreMaps(business_blocks), g \in UniformScoreMaps(tech_blocks)}
    \cup {f @@ g : f \in UniformScoreMaps(business_blocks), g \in GroupScoreMaps(tech_blocks)}

WeightConfigs ==
    { SYNERGY_BLOCKS,
      EmptyDict,
      [b \in Blocks |-> IF b \in business_blocks THEN 0 ELSE SYNERGY_BLOCKS[b]],
      [b \in Blocks |-> IF b \in tech_blocks THEN 0 ELSE SYNERGY_BLOCKS[b]],
      [b \in Blocks |-> IF b \in {"Strategic Fit", "Architecture"} THEN 0 ELSE SYNERGY_BLOCKS[b]],
      [b \in Blocks \ {"User Value", "Maintainability"} |-> SYNERGY_BLOCKS[b]],
      [b \in Blocks |->
          CASE b = "Strategic Fit" -> 50
            [] b = "Business Efficiency" -> 5
            [] b = "Architecture" -> 10
            [] b = "Support Quality" -> 100
            [] OTHER -> SYNERGY_BLOCKS[b]] }

(***************************************************************************)
(* Nothing computed, edited or evaluated yet                               *)
(***************************************************************************)
NoCalc == [done |-> FALSE, s |-> "", used |-> EmptyDict, bvi |-> 0, thi |-> 0]

NoEdit == [done |-> FALSE, s |-> "", block |-> "", value |-> 0]

NotEvaluated == [app_done |-> FALSE, app |-> 0, gen_done |-> FALSE, gen |-> 0]

NoBlocks == [raised |-> FALSE, blocks |-> EmptyDict]

NoDetail == [recommendation |-> "", bvi |-> 0, thi |-> 0, arch_score |-> 1, maint_score |-> 1,
             subcategory |-> "", quick_win |-> FALSE]

NotDerived == [op |-> "none", subcategory |-> "", priority |-> ""]

NotProcessed == [op |-> "none", stored |-> <<>>, combined |-> <<>>, blocks_with_data |-> {}]

NoMeetings == [transcripts |-> EmptyDict, answers |-> <<>>]

NoBatch == [op |-> "none", files |-> <<>>, before |-> NoMeetings.transcripts,
            rows_before |-> EmptyDict]

Unset == [done |-> FALSE, match |-> <<>>]

NotMatched == [web |-> Unset, wb |-> Unset, gen |-> Unset]

NoApproval == [op |-> "none", failed |-> FALSE, before |-> <<>>]

NotRead == [done |-> FALSE, answers |-> EmptyDict, blanked |-> FALSE]

NotParsed == [wb |-> NotRead, gen |-> NotRead]

NoPortfolio == [apps |-> EmptyDict, weights |-> EmptyDict]

NoStoreOp == [op |-> "none", app |-> "", before |-> EmptyDict, rejected |-> FALSE]

NotScored == [app_done |-> FALSE, app |-> NoBlocks, gen_done |-> FALSE, gen |-> NoBlocks]

(***************************************************************************)
(* The parts of the state a specification leaves alone                     *)
(***************************************************************************)
AggIdle == scores = EmptyDict /\ weights = SYNERGY_BLOCKS /\ aggOut = NotRun

RecIdle == argBvi = 0 /\ argThi = 0 /\ recAi = "" /\ recXl = ""

ResolveIdle ==
    /\ pipeline = "none"
    /\ base_answers = EmptyDict /\ mergeLog = NoMerge
    /\ applications = {} /\ answers = <<>>
    /\ sess = [s \in Sessions |-> SessIdle]
    /\ saveLog = NoSave
    /\ answerPool = {} /\ uploads = 0 /\ active = {}

CacheIdle ==
    /\ custom_weights_table = EmptyDict
    /\ session_state = [s \in Sessions |-> EmptyDict]
    /\ calcLog = NoCalc
    /\ lastEdit = NoEdit

EvalIdle == evalText = TextEmpty /\ evalOut = NotEvaluated

ScoreIdle == scoreApp = EmptyDict /\ scoreOut = NotScored

MatrixIdle == detailIn = NoDetail /\ detailOut = NotDerived

StoreIdle == portfolio = NoPortfolio /\ storeLog = NoStoreOp

TranscriptIdle == extracted = <<>> /\ transcriptOut = NotProcessed

BatchIdle == meetingDb = NoMeetings /\ batchLog = NoBatch

MatchIdle == matchIn = <<>> /\ matchOut = NotMatched

ApprovalIdle == synergy = <<>> /\ approvalLog = NoApproval

SheetIdle == sheetRows = <<>> /\ sheetOut = NotParsed

(***************************************************************************)
(* The aggregator applied: the two copies of calculate_bvi_thi called      *)
(* directly, one row of the calculator page, one row of the Excel export.  *)
(***************************************************************************)
AiCalculate ==
    /\ aggOut.op = "none"
    /\ LET r == AiCalculateBviThi(scores, weights)
       IN  aggOut' = [op |-> "ai", shown |-> TRUE, bvi |-> r[1], thi |-> r[2],
                      rec |-> AiGetRecommendation(r[1], r[2])]
    /\ UNCHANGED <<scores, weights, recVars, resolveVars, cacheVars, evalVars, scoreVars, matrixVars, storeVars, transcriptVars, batchVars, matchVars, approvalVars, sheetVars>>

XlCalculate ==
    /\ aggOut.op = "none"
    /\ LET r == XlCalculateBviThi(scores, weights)
       IN  aggOut' = [op |-> "xl", shown |-> TRUE, bvi |-> r[1], thi |-> r[2],
                      rec |-> XlGetRecommendation(r[1], r[2])]
    /\ UNCHANGED <<scores, weights, recVars, resolveVars, cacheVars, evalVars, scoreVars, matrixVars, storeVars, transcriptVars, batchVars, matchVars, approvalVars, sheetVars>>

\* page_calculator: an application without approved scores gets no row
PageCalculatorRow ==
    /\ aggOut.op = "none"
    /\ IF DOMAIN scores # {}
       THEN LET r == AiCalculateBviThi(scores, weights)
            IN  aggOut' = [op |-> "web", shown |-> TRUE, bvi |-> r[1], thi |-> r[2],
                           rec |-> AiGetRecommendation(r[1], r[2])]
       ELSE aggOut' = [op |-> "web", shown |-> FALSE, bvi |-> 0, thi |-> 0, rec |-> ""]
    /\ UNCHANGED <<scores, weights, recVars, resolveVars, cacheVars, evalVars, scoreVars, matrixVars, storeVars, transcriptVars, batchVars, matchVars, approvalVars, sheetVars>>

\* generate_portfolio_excel: every application gets a row
ExcelWeightDict(custom_weights) ==
    LET w == IF DOMAIN custom_weights # {} THEN custom_weights ELSE SYNERGY_BLOCKS
    IN  [b \in Blocks |-> Get(w, b, SYNERGY_BLOCKS[b])]

ExcelExportRow ==
    /\ aggOut.op = "none"
    /\ LET r == XlCalculateBviThi(scores, ExcelWeightDict(weights))
       IN  aggOut' = [op |-> "excel", shown |-> TRUE, bvi |-> r[1], thi |-> r[2],
                      rec |-> XlGetRecommendation(r[1], r[2])]
    /\ UNCHANGED <<scores, weights, recVars, resolveVars, cacheVars, evalVars, scoreVars, matrixVars, storeVars, transcriptVars, batchVars, matchVars, approvalVars, sheetVars>>

InitAgg ==
    /\ scores \in InputScores
    /\ weights \in WeightConfigs
    /\ aggOut = NotRun
    /\ RecIdle
    /\ ResolveIdle
    /\ CacheIdle /\ EvalIdle
    /\ ScoreIdle /\ MatrixIdle /\ StoreIdle /\ TranscriptIdle
    /\ BatchIdle /\ MatchIdle /\ ApprovalIdle /\ SheetIdle

NextAgg == AiCalculate \/ XlCalculate \/ PageCalculatorRow \/ ExcelExportRow

SpecAgg == InitAgg /\ [][NextAgg]_vars

(***************************************************************************)
(* The classifier applied to index pairs of [0,100] x [0,100]: every       *)
(* multiple of 5, and the tenths on both sides of the threshold.           *)
(***************************************************************************)
IndexSamples == {50 * k : k \in 0..20} \cup {599, 601}

ClassifyAi ==
    /\ recAi = ""
    /\ recAi' = AiGetRecommendation(argBvi, argThi)
    /\ UNCHANGED <<argBvi, argThi, recXl, aggVars, resolveVars, cacheVars, evalVars, scoreVars, matrixVars, storeVars, transcriptVars, batchVars, matchVars, approvalVars, sheetVars>>

ClassifyXl ==
    /\ recXl = ""
    /\ recXl' = XlGetRecommendation(argBvi, argThi)
    /\ UNCHANGED <<argBvi, argThi, recAi, aggVars, resolveVars, cacheVars, evalVars, scoreVars, matrixVars, storeVars, transcriptVars, batchVars, matchVars, approvalVars, sheetVars>>

InitClassify ==
    /\ argBvi \in IndexSamples
    /\ argThi \in IndexSamples
    /\ recAi = "" /\ recXl = ""
    /\ AggIdle
    /\ ResolveIdle
    /\ CacheIdle /\ EvalIdle
    /\ ScoreIdle /\ MatrixIdle /\ StoreIdle /\ TranscriptIdle
    /\ BatchIdle /\ MatchIdle /\ ApprovalIdle /\ SheetIdle

NextClassify == ClassifyAi \/ ClassifyXl

SpecClassify == InitClassify /\ [][NextClassify]_vars

(***************************************************************************)
(* The answer resolvers applied: smart_merge called pass after pass, and   *)
(* save_application_to_db run by the user sessions, query by query.        *)
(***************************************************************************)
SmartMergeCall(new) ==
    /\ pipeline = "merge"
    /\ base_answers' = smart_merge(base_answers, new)
    /\ mergeLog' = [done |-> TRUE, new |-> new, before |-> base_answers,
                    repeated |-> mergeLog.done /\ mergeLog.new = new]
    /\ UNCHANGED <<pipeline, saveVars, answerPool, uploads, active, aggVars, recVars, cacheVars, evalVars, scoreVars, matrixVars, storeVars, transcriptVars, batchVars, matchVars, approvalVars, sheetVars>>

\* lines 965-976: look the application up by name, create it when missing
SaveBegin(s, app_data) ==
    /\ pipeline = "save"
    /\ s \in active
    /\ sess[s].pc = "idle"
    /\ uploads < MaxUploads
    /\ LET found == ExistingApp(app_data.name)
       IN  sess' = [sess EXCEPT ![s] =
                [pc |-> IF DOMAIN app_data.answers = {} THEN "commit" ELSE "answers",
                 app_data |-> app_data,
                 app_id |-> IF found # {} THEN (CHOOSE r \in found : TRUE).id ELSE s,
                 new_app |-> found = {},
                 todo |-> DOMAIN app_data.answers,
                 adds |-> <<>>,
                 updates |-> EmptyDict,
                 before |-> answers,
                 again |-> saveLog.done /\ saveLog.ok /\ saveLog.app_data = app_data]]
    /\ saveLog' = NoSave
    /\ uploads' = uploads + 1
    /\ UNCHANGED <<pipeline, mergeVars, applications, answers, answerPool, active,
                   aggVars, recVars, cacheVars, evalVars, scoreVars, matrixVars, storeVars, transcriptVars, batchVars, matchVars, approvalVars, sheetVars>>

\* lines 979-1010: one iteration of the loop over app_data['answers']
SaveAnswer(s, question) ==
    /\ pipeline = "save"
    /\ sess[s].pc = "answers"
    /\ question \in sess[s].todo
    /\ LET me == sess[s]
           answer_obj == me.app_data.answers[question]
           existing == FirstAnswer(answers, me.app_id, question)
           todo == me.todo \ {question}
           pc == IF todo = {} THEN "commit" ELSE "answers"
       IN  IF existing = 0
           THEN sess' = [sess EXCEPT ![s] =
                    [me EXCEPT !.adds = Append(me.adds, NewAnswerRow(me.app_id, question, answer_obj)),
                               !.todo = todo, !.pc = pc]]
           ELSE IF IsIncomplete(answers[existing].answer_text) /\ HasContent(answer_obj.a)
           THEN sess' = [sess EXCEPT ![s] =
                    [me EXCEPT !.updates = (existing :> answer_obj) @@ me.updates,
                               !.todo = todo, !.pc = pc]]
           ELSE sess' = [sess EXCEPT ![s] = [me EXCEPT !.todo = todo, !.pc = pc]]
    /\ UNCHANGED <<pipeline, mergeVars, applications, answers, saveLog, answerPool, uploads,
                   active, aggVars, recVars, cacheVars, evalVars, scoreVars, matrixVars, storeVars, transcriptVars, batchVars, matchVars, approvalVars, sheetVars>>

\* the table after the session's pending UPDATEs and INSERTs
Committed(rows, me) ==
    [i \in 1..Len(rows) |->
        IF i \in DOMAIN me.updates THEN UpdatedRow(rows[i], me.updates[i]) ELSE rows[i]]
    \o me.adds

\* lines 1012-1018: commit; a second application row of the same name violates
\* the unique constraint of Application.name and the whole save is rolled back
SaveCommit(s) ==
    /\ pipeline = "save"
    /\ sess[s].pc = "commit"
    /\ LET me == sess[s]
           ok == ~(me.new_app /\ ExistingApp(me.app_data.name) # {})
       IN  /\ applications' =
                IF ok /\ me.new_app
                THEN applications \cup {[id |-> me.app_id, name |-> me.app_data.name]}
                ELSE applications
           /\ answers' = IF ok THEN Committed(answers, me) ELSE answers
           /\ saveLog' = [done |-> TRUE, ok |-> ok, app_data |-> me.app_data,
                          before |-> me.before,
                          repeated |-> me.again]
    /\ sess' = [sess EXCEPT ![s] = SessIdle]
    /\ UNCHANGED <<pipeline, mergeVars, answerPool, uploads, active, aggVars, recVars, cacheVars, evalVars, scoreVars, matrixVars, storeVars, transcriptVars, batchVars, matchVars, approvalVars, sheetVars>>

InitResolve ==
    /\ pipeline \in {"merge", "save"}
    /\ answerPool = AnswerObjects
    /\ active = {"s1"}
    /\ base_answers \in (IF pipeline = "merge" THEN AnswerDicts(AnswerObjects) ELSE {EmptyDict})
    /\ mergeLog = NoMerge
    /\ applications = {} /\ answers = <<>>
    /\ sess = [s \in Sessions |-> SessIdle]
    /\ saveLog = NoSave
    /\ uploads = 0
    /\ AggIdle /\ RecIdle /\ CacheIdle /\ EvalIdle
    /\ ScoreIdle /\ MatrixIdle /\ StoreIdle /\ TranscriptIdle
    /\ BatchIdle /\ MatchIdle /\ ApprovalIdle /\ SheetIdle

NextResolve ==
    \/ \E new \in AnswerDicts(answerPool) : SmartMergeCall(new)
    \/ \E s \in Sessions, app_data \in AppDatas(answerPool) : SaveBegin(s, app_data)
    \/ \E s \in Sessions, q \in Questions : SaveAnswer(s, q)
    \/ \E s \in Sessions : SaveCommit(s)

SpecResolve == InitResolve /\ [][NextResolve]_vars

\* two user sessions uploading at the same time
InitSaveConc ==
    /\ pipeline = "save"
    /\ answerPool = SmallAnswerObjects
    /\ active = Sessions
    /\ base_answers = EmptyDict /\ mergeLog = NoMerge
    /\ applications = {} /\ answers = <<>>
    /\ sess = [s \in Sessions |-> SessIdle]
    /\ saveLog = NoSave
    /\ uploads = 0
    /\ AggIdle /\ RecIdle /\ CacheIdle /\ EvalIdle
    /\ ScoreIdle /\ MatrixIdle /\ StoreIdle /\ TranscriptIdle
    /\ BatchIdle /\ MatchIdle /\ ApprovalIdle /\ SheetIdle

NextSaveConc ==
    \/ \E s \in Sessions, app_data \in AppDatas(answerPool) : SaveBegin(s, app_data)
    \/ \E s \in Sessions, q \in Questions : SaveAnswer(s, q)
    \/ \E s \in Sessions : SaveCommit(s)

SpecSaveConc == InitSaveConc /\ [][NextSaveConc]_vars

(***************************************************************************)
(* The weight cache: load_weights_from_db, save_weights_to_db,             *)
(* get_current_weights, and the pages that compute BVI/THI with them.      *)
(***************************************************************************)
\* what the number_input of the weight editor may return (0..100, step 5)
WeightInputs == {0, 30, 50}

\* the blocks whose weight the users edit
EditableBlocks == {"Strategic Fit", "Architecture"}

\* the approved scores of the application the pages show
CalcScores == [b \in Blocks |-> IF b \in EditableBlocks THEN MaxScore ELSE MinScore]

load_weights_from_db(state, table) ==
    IF "custom_weights" \notin DOMAIN state
    THEN [custom_weights |-> IF DOMAIN table # {} THEN table ELSE SYNERGY_BLOCKS]
    ELSE state

save_weights_to_db(state, table) ==
    IF "custom_weights" \notin DOMAIN state
    THEN table
    ELSE [b \in DOMAIN table \cup DOMAIN state.custom_weights |->
            IF b \in DOMAIN state.custom_weights THEN state.custom_weights[b] ELSE table[b]]

\* get_current_weights() of a session whose state is already loaded
get_current_weights(state) ==
    IF "custom_weights" \in DOMAIN state THEN state.custom_weights ELSE SYNERGY_BLOCKS

\* a page other than the calculator (dashboard, analyses, insights) renders:
\* calculate_bvi_thi(scores, {b: {'Weight': w} for b, w in get_current_weights().items()})
PageCompute(s) ==
    LET state == load_weights_from_db(session_state[s], custom_weights_table)
        w == get_current_weights(state)
        r == AiCalculateBviThi(CalcScores, w)
    IN  /\ session_state' = [session_state EXCEPT ![s] = state]
        /\ calcLog' = [done |-> TRUE, s |-> s, used |-> w, bvi |-> r[1], thi |-> r[2]]
        /\ UNCHANGED <<custom_weights_table, lastEdit, aggVars, recVars, resolveVars, evalVars, scoreVars, matrixVars, storeVars, transcriptVars, batchVars, matchVars, approvalVars, sheetVars>>

\* the weight editor: every block's number_input value is written to the
\* session's custom_weights, which is then saved
WeightEditor(state, new_val) ==
    [custom_weights |->
        [b \in DOMAIN state.custom_weights \cup Blocks |-> new_val[b]]]

\* page_calculator renders with the inputs showing new_val, and computes its rows
PageCalculatorRender(s, state, new_val) ==
    LET edited == WeightEditor(state, new_val)
        weights_for_calc == [b \in Blocks |-> edited.custom_weights[b]]
        r == AiCalculateBviThi(CalcScores, weights_for_calc)
    IN  /\ session_state' = [session_state EXCEPT ![s] = edited]
        /\ custom_weights_table' = save_weights_to_db(edited, custom_weights_table)
        /\ calcLog' = [done |-> TRUE, s |-> s, used |-> weights_for_calc,
                       bvi |-> r[1], thi |-> r[2]]

\* page_calculator renders, the user having changed no input
PageCalculatorView(s) ==
    LET state == load_weights_from_db(session_state[s], custom_weights_table)
        current_weights == get_current_weights(state)
    IN  /\ PageCalculatorRender(s, state,
                [b \in Blocks |-> Get(current_weights, b, FallbackWeight)])
        /\ UNCHANGED <<lastEdit, aggVars, recVars, resolveVars, evalVars, scoreVars, matrixVars, storeVars, transcriptVars, batchVars, matchVars, approvalVars, sheetVars>>

\* page_calculator renders, the user having set one block's input to a new value
PageCalculatorEdit(s, block, value) ==
    LET state == load_weights_from_db(session_state[s], custom_weights_table)
        current_weights == get_current_weights(state)
    IN  /\ value # Get(current_weights, block, FallbackWeight)
        /\ PageCalculatorRender(s, state,
                [b \in Blocks |-> IF b = block THEN value
                                  ELSE Get(current_weights, b, FallbackWeight)])
        /\ lastEdit' = [done |-> TRUE, s |-> s, block |-> block, value |-> value]
        /\ UNCHANGED <<aggVars, recVars, resolveVars, evalVars, scoreVars, matrixVars, storeVars, transcriptVars, batchVars, matchVars, approvalVars, sheetVars>>

\* page_calculator renders with "Reset to Defaults" pressed: the defaults are
\* saved and st.rerun() ends the run before any row is computed
ResetToDefaults(s) ==
    LET state == load_weights_from_db(session_state[s], custom_weights_table)
        current_weights == get_current_weights(state)
        shown == WeightEditor(state, [b \in Blocks |-> Get(current_weights, b, FallbackWeight)])
        reset == [custom_weights |-> SYNERGY_BLOCKS]
    IN  /\ session_state' = [session_state EXCEPT ![s] = reset]
        /\ custom_weights_table' =
                save_weights_to_db(reset, save_weights_to_db(shown, custom_weights_table))
        /\ lastEdit' = NoEdit
        /\ calcLog' = NoCalc
        /\ UNCHANGED <<aggVars, recVars, resolveVars, evalVars, scoreVars, matrixVars, storeVars, transcriptVars, batchVars, matchVars, approvalVars, sheetVars>>

InitWeights ==
    /\ custom_weights_table = EmptyDict
    /\ session_state = [s \in Sessions |-> EmptyDict]
    /\ calcLog = NoCalc
    /\ lastEdit = NoEdit
    /\ AggIdle /\ RecIdle /\ ResolveIdle /\ EvalIdle
    /\ ScoreIdle /\ MatrixIdle /\ StoreIdle /\ TranscriptIdle
    /\ BatchIdle /\ MatchIdle /\ ApprovalIdle /\ SheetIdle

NextWeights ==
    \/ \E s \in Sessions : PageCompute(s)
    \/ \E s \in Sessions : PageCalculatorView(s)
    \/ \E s \in Sessions, block \in EditableBlocks, value \in WeightInputs :
            PageCalculatorEdit(s, block, value)
    \/ \E s \in Sessions : ResetToDefaults(s)

SpecWeights == InitWeights /\ [][NextWeights]_vars

(***************************************************************************)
(* The keyword evaluator: evaluate_answer_text of src/app.py and its copy  *)
(* in src/generate_apm_strategic.py.                                       *)
(***************************************************************************)
KEYWORDS ==
    [high |-> {
        <<"a", "u", "t", "o", "m", "a", "t", "i", "o", "n">>,
        <<"o", "p", "t", "i", "m", "i", "z", "e", "d">>,
        <<"c", "l", "o", "u", "d">>,
        <<"m", "o", "d", "e", "r", "n">>,
        <<"i", "n", "t", "e", "g", "r", "a", "t", "e", "d">>,
        <<"i", "n", "n", "o", "v", "a", "t", "i", "v", "e">>,
        <<"s", "t", "r", "a", "t", "e", "g", "i", "c">>,
        <<"s", "e", "c", "u", "r", "e">>,
        <<"c", "r", "i", "t", "i", "c", "a", "l">>,
        <<"d", "i", "f", "f", "e", "r", "e", "n", "t", "i", "a", "t", "o", "r">>,
        <<"g", "o", "l", "d", " ", "s", "t", "a", "n", "d", "a", "r", "d">>,
        <<"m", "a", "n", "d", "a", "t", "o", "r", "y">>,
        <<"e", "s", "s", "e", "n", "t", "i", "a", "l">>,
        <<"g", "r", "o", "w", "i", "n", "g">>,
        <<"s", "t", "a", "b", "l", "e">>,
        <<"l", "i", "f", "e", "c", "y", "c", "l", "e">>,
        <<"u", "n", "i", "f", "i", "e", "d">>,
        <<"m", "o", "b", "i", "l", "e">>,
        <<"c", "o", "n", "f", "i", "g", "u", "r", "a", "b", "l", "e">>,
        <<"a", "c", "t", "i", "v", "e">>,
        <<"y", "e", "s", ".", " ", "s", "u", "p", "p", "o", "r", "t", "s">>,
        <<"m", "i", "d", "d", "l", "e", "w", "a", "r", "e">>},
     low |-> {
        <<"m", "a", "n", "u", "a", "l">>,
        <<"l", "e", "g", "a", "c", "y">>,
        <<"o", "b", "s", "o", "l", "e", "t", "e">>,
        <<"e", "r", "r", "o", "r">>,
        <<"p", "o", "o", "r">>,
        <<"r", "i", "s", "k">>,
        <<"u", "n", "s", "u", "p", "p", "o", "r", "t", "e", "d">>,
        <<"s", "i", "l", "o">>,
        <<"r", "e", "d", "u", "n", "d", "a", "n", "t">>,
        <<"c", "o", "s", "t", "l", "y">>,
        <<"o", "n", "e", " ", "p", "e", "r", "s", "o", "n">>,
        <<"c", "u", "s", "t", "o", "m", " ", "b", "u", "i", "l", "t">>,
        <<"u", "n", "k", "n", "o", "w", "n">>,
        <<"n", "o">>,
        <<"s", "c", "r", "i", "p", "t", "s">>,
        <<"g", "a", "p", "s">>,
        <<"b", "a", "d", " ", "a", "r", "c", "h", "i", "t", "e", "c", "t", "u", "r", "e">>,
        <<"c", "u", "s", "t", "o", "m">>,
        <<"n", "a">>}]

\* str.lower() on the letters of the texts
LowerChar(c) ==
    CASE c = "A" -> "a" [] c = "B" -> "b" [] c = "C" -> "c" [] c = "D" -> "d"
      [] c = "E" -> "e" [] c = "F" -> "f" [] c = "G" -> "g" [] c = "H" -> "h"
      [] c = "I" -> "i" [] c = "J" -> "j" [] c = "K" -> "k" [] c = "L" -> "l"
      [] c = "M" -> "m" [] c = "N" -> "n" [] c = "O" -> "o" [] c = "P" -> "p"
      [] c = "Q" -> "q" [] c = "R" -> "r" [] c = "S" -> "s" [] c = "T" -> "t"
      [] c = "U" -> "u" [] c = "V" -> "v" [] c = "W" -> "w" [] c = "X" -> "x"
      [] c = "Y" -> "y" [] c = "Z" -> "z" [] OTHER -> c

Lower(text) == [i \in 1..Len(text) |-> LowerChar(text[i])]

\* w in t
Contains(t, w) ==
    \E i \in 0..(Len(t) - Len(w)) : SubSeq(t, i + 1, i + Len(w)) = w

PosHits(t) == Cardinality({w \in KEYWORDS.high : Contains(t, w)})
NegHits(t) == Cardinality({w \in KEYWORDS.low : Contains(t, w)})

WordNo == <<"n", "o">>
WordYes == <<"y", "e", "s">>
WordSecurity == <<"s", "e", "c", "u", "r", "i", "t", "y">>
WordIam == <<"i", "a", "m">>

MinTextLen == 2

\* evaluate_answer_text without the exact "no" / "yes" returns
evaluate_answer_text_keywords_only(text) ==
    IF Len(text) = 0 \/ Len(Strip(text)) < MinTextLen THEN 0
    ELSE LET t == Lower(text)
             pos_hits == PosHits(t)
             neg_hits == NegHits(t)
             s1 == IF pos_hits > neg_hits THEN 4 ELSE 3
             s2 == IF pos_hits > 2 /\ neg_hits = 0 THEN 5 ELSE s1
             s3 == IF neg_hits > pos_hits THEN 2 ELSE s2
             s4 == IF neg_hits > 1 THEN 1 ELSE s3
         IN  IF (Contains(t, WordSecurity) \/ Contains(t, WordIam)) /\ Contains(t, WordNo)
             THEN 1 ELSE s4

\* evaluate_answer_text without the security / iam rule
evaluate_answer_text_no_override(text) ==
    IF Len(text) = 0 \/ Len(Strip(text)) < MinTextLen THEN 0
    ELSE LET t == Lower(text)
             pos_hits == PosHits(t)
             neg_hits == NegHits(t)
             s1 == IF pos_hits > neg_hits THEN 4 ELSE 3
             s2 == IF pos_hits > 2 /\ neg_hits = 0 THEN 5 ELSE s1
             s3 == IF neg_hits > pos_hits THEN 2 ELSE s2
             s4 == IF neg_hits > 1 THEN 1 ELSE s3
         IN  IF Strip(t) = WordNo THEN 1
             ELSE IF Strip(t) = WordYes THEN 4
             ELSE s4

evaluate_answer_text(text) ==
    IF Len(text) = 0 \/ Len(Strip(text)) < MinTextLen THEN 0
    ELSE LET t == Lower(text)
             pos_hits == PosHits(t)
             neg_hits == NegHits(t)
             s1 == IF pos_hits > neg_hits THEN 4 ELSE 3
             s2 == IF pos_hits > 2 /\ neg_hits = 0 THEN 5 ELSE s1
             s3 == IF neg_hits > pos_hits THEN 2 ELSE s2
             s4 == IF neg_hits > 1 THEN 1 ELSE s3
             s5 == IF (Contains(t, WordSecurity) \/ Contains(t, WordIam)) /\ Contains(t, WordNo)
                   THEN 1 ELSE s4
         IN  IF Strip(t) = WordNo THEN 1
             ELSE IF Strip(t) = WordYes THEN 4
             ELSE s5

\* the pieces the answer texts are made of
TokModernCloud == <<"m", "o", "d", "e", "r", "n", " ", "c", "l", "o", "u", "d", " ">>
TokSecure == <<"s", "e", "c", "u", "r", "e", " ">>
TokManualLegacy == <<"m", "a", "n", "u", "a", "l", " ", "l", "e", "g", "a", "c", "y", " ">>
TokRisk == <<"r", "i", "s", "k", " ">>
TokNo == <<"n", "o">>
TokYes == <<"Y", "e", "s">>
TokSecurity == <<"s", "e", "c", "u", "r", "i", "t", "y", " ">>
TokIam == <<"I", "A", "M", " ">>
TokSpace == <<" ">>
TokX == <<"x">>

Tokens == {TokModernCloud, TokSecure, TokManualLegacy, TokRisk, TokNo, TokYes,
           TokSecurity, TokIam, TokSpace, TokX}

MaxTokens == 3

RECURSIVE TextsOf(_)
TextsOf(n) ==
    IF n = 0 THEN {<<>>}
    ELSE LET shorter == TextsOf(n - 1)
         IN  shorter \cup {t \o k : t \in shorter, k \in Tokens}

AnswerTexts == TextsOf(MaxTokens)

EvaluateApp ==
    /\ ~evalOut.app_done
    /\ evalOut' = [evalOut EXCEPT !.app_done = TRUE, !.app = evaluate_answer_text(evalText)]
    /\ UNCHANGED <<evalText, aggVars, recVars, resolveVars, cacheVars, scoreVars, matrixVars, storeVars, transcriptVars, batchVars, matchVars, approvalVars, sheetVars>>

EvaluateGen ==
    /\ ~evalOut.gen_done
    /\ evalOut' = [evalOut EXCEPT !.gen_done = TRUE, !.gen = evaluate_answer_text(evalText)]
    /\ UNCHANGED <<evalText, aggVars, recVars, resolveVars, cacheVars, scoreVars, matrixVars, storeVars, transcriptVars, batchVars, matchVars, approvalVars, sheetVars>>

InitEval ==
    /\ evalText \in AnswerTexts
    /\ evalOut = NotEvaluated
    /\ AggIdle /\ RecIdle /\ ResolveIdle /\ CacheIdle
    /\ ScoreIdle /\ MatrixIdle /\ StoreIdle /\ TranscriptIdle
    /\ BatchIdle /\ MatchIdle /\ ApprovalIdle /\ SheetIdle

NextEval == EvaluateApp \/ EvaluateGen

SpecEval == InitEval /\ [][NextEval]_vars

(***************************************************************************)
(* The block scorer: calculate_score of src/app.py and its copy in         *)
(* src/generate_apm_strategic.py.  A per-question score is kept doubled    *)
(* (x2), so that 2.5 is 5; inf marks float('inf').                         *)
(***************************************************************************)
QName == "What is the name of the application?"
QOpcos == "Which OPCOs use the application?"
QUsage == "Is usage mandatory or optional for users?"

\* a key of a manual answer sheet that differs slightly from the master key
KeyOpcos == "Which OPCOs use the application"

\* the blocks in the order of synergy_blocks
BlockOrder ==
    <<"Strategic Fit", "Business Efficiency", "User Value", "Financial Value",
      "Architecture", "Operational Risk", "Maintainability", "Support Quality">>

MASTER_QUESTIONS ==
    [b \in Blocks |->
        CASE b = "Strategic Fit" -> <<QName, QOpcos>>
          [] b = "User Value" -> <<QUsage>>
          [] OTHER -> <<>>]

\* difflib.get_close_matches(q_text, keys, n=1, cutoff=0.85)
CloseKeys == {<<QOpcos, KeyOpcos>>}

\* the "s" of an answer object: None, a number, or a cell text
SNone == [k |-> "none", x2 |-> 0, v |-> ""]
SNum(x2) == [k |-> "num", x2 |-> x2, v |-> ""]
SText(v) == [k |-> "text", x2 |-> 0, v |-> v]

\* an answer object {"a": a, "s": s}, and an answer given as a plain string
AnsDict(a, sv) == [kind |-> "dict", a |-> a, s |-> sv]
AnsStr(a) == [kind |-> "str", a |-> a, s |-> SNone]

\* ans_obj = {}
EmptyAnswer == AnsDict(TextEmpty, SNone)

TextSpaceX == <<" ", "x">>
TextNoPadded == <<" ", "N", "o", " ">>

\* get_ans of src/app.py: the exact key, else the close match
get_ans(app_answers, q_text) ==
    IF q_text \in DOMAIN app_answers THEN app_answers[q_text]
    ELSE LET matches == {key \in DOMAIN app_answers : <<q_text, key>> \in CloseKeys}
         IN  IF matches # {} THEN app_answers[CHOOSE key \in matches : TRUE]
             ELSE EmptyAnswer

\* app.get("answers", {}).get(q, {}) of src/generate_apm_strategic.py
gen_get_ans(app_answers, q_text) ==
    IF q_text \in DOMAIN app_answers THEN app_answers[q_text] ELSE EmptyAnswer

\* bool(s_val)
Truthy(sv) ==
    CASE sv.k = "none" -> FALSE
      [] sv.k = "num" -> sv.x2 # 0
      [] OTHER -> Len(sv.v) > 0

\* float(s_val): a number, infinity, or ValueError
ParseFloat(sv) ==
    CASE sv.k = "num" -> [ok |-> TRUE, inf |-> FALSE, x2 |-> sv.x2]
      [] sv.k = "text" /\ sv.v = "inf" -> [ok |-> TRUE, inf |-> TRUE, x2 |-> 0]
      [] OTHER -> [ok |-> FALSE, inf |-> FALSE, x2 |-> 0]

Finite(x2) == [inf |-> FALSE, x2 |-> x2]

MinRawLen == 2

\* QuestionScore taking the supplied score whatever the text score is
QuestionScoreNumericFirst(ans_obj) ==
    LET t_score == evaluate_answer_text(ans_obj.a)
        f == ParseFloat(ans_obj.s)
    IN  IF Len(ans_obj.a) < MinRawLen THEN Finite(0)
        ELSE IF Truthy(ans_obj.s) /\ f.ok /\ (f.inf \/ f.x2 >= 2)
             THEN [inf |-> f.inf, x2 |-> f.x2]
             ELSE Finite(2 * t_score)

\* the score of one question
QuestionScore(ans_obj) ==
    LET a_txt == ans_obj.a
        s_val == ans_obj.s
        t_score == evaluate_answer_text(a_txt)
        f == ParseFloat(s_val)
        score == IF t_score <= 2 THEN Finite(2 * t_score)
                 ELSE IF Truthy(s_val) /\ f.ok /\ (f.inf \/ f.x2 >= 2)
                      THEN [inf |-> f.inf, x2 |-> f.x2]
                      ELSE Finite(2 * t_score)
    IN  IF Len(a_txt) < MinRawLen THEN Finite(0) ELSE score

Positive(score) == score.inf \/ score.x2 > 0

\* the "qa" list of a block, with the text score of each answer
BlockQa(found, category) ==
    [i \in 1..Len(MASTER_QUESTIONS[category]) |->
        LET ans_obj == found[MASTER_QUESTIONS[category][i]]
        IN  [q |-> MASTER_QUESTIONS[category][i], a |-> ans_obj.a,
             s |-> QuestionScore(ans_obj), t |-> evaluate_answer_text(ans_obj.a)]]

RECURSIVE RawX2(_, _)
RawX2(qa, n) ==
    IF n = 0 THEN 0
    ELSE RawX2(qa, n - 1) + (IF qa[n].s.inf THEN 0 ELSE IF qa[n].s.x2 > 0 THEN qa[n].s.x2 ELSE 0)

BlockCnt(qa) == Cardinality({i \in 1..Len(qa) : Positive(qa[i].s)})

BlockInf(qa) == \E i \in 1..Len(qa) : qa[i].s.inf

Clamp(sc) == IF sc < MinScore THEN MinScore ELSE IF sc > MaxScore THEN MaxScore ELSE sc

\* int(round(raw / cnt)) clamped; round() of an infinite raw raises OverflowError
Overflows(qa) == BlockCnt(qa) > 0 /\ BlockInf(qa)

FinalScore(qa) ==
    IF BlockCnt(qa) > 0
    THEN Clamp(RoundHalfEven(RawX2(qa, Len(qa)), 2 * BlockCnt(qa)))
    ELSE 1

\* app["blocks"] as the call leaves it: the blocks before the one whose
\* rounding raised are final, the others keep the initial score 1
ScoreBlocks(found) ==
    LET qa == [b \in Blocks |-> BlockQa(found, b)]
        bad == {i \in 1..Len(BlockOrder) : Overflows(qa[BlockOrder[i]])}
        first == IF bad = {} THEN Len(BlockOrder) + 1
                 ELSE CHOOSE i \in bad : \A j \in bad : i <= j
        pos(b) == CHOOSE i \in 1..Len(BlockOrder) : BlockOrder[i] = b
    IN  [raised |-> bad # {},
         blocks |-> [b \in Blocks |->
            [qa |-> qa[b], raw_x2 |-> RawX2(qa[b], Len(qa[b])), raw_inf |-> BlockInf(qa[b]),
             cnt |-> BlockCnt(qa[b]),
             score |-> IF pos(b) < first THEN FinalScore(qa[b]) ELSE 1]]]

AllQuestions == {QName, QOpcos, QUsage}

calculate_score(app_answers) ==
    ScoreBlocks([q \in AllQuestions |-> get_ans(app_answers, q)])

gen_calculate_score(app_answers) ==
    ScoreBlocks([q \in AllQuestions |-> gen_get_ans(app_answers, q)])

\* the answer objects of the sheets
TextFive == TokModernCloud \o TokSecure

ScoreAnswerObjects ==
    { AnsDict(TextEmpty, SNone), AnsDict(TokX, SNum(8)), AnsDict(TextSpaceX, SNum(8)),
      AnsDict(TokNo, SNone), AnsStr(TextNoPadded), AnsDict(TextNoPadded, SNum(10)),
      AnsDict(TokYes, SNone), AnsDict(TokYes, SNum(4)), AnsDict(TokRisk, SNum(10)),
      AnsDict(TokManualLegacy, SNum(10)),
      AnsDict(TextOkay, SNone), AnsDict(TextOkay, SNum(0)), AnsDict(TextOkay, SNum(-2)),
      AnsDict(TextOkay, SNum(1)), AnsDict(TextOkay, SText("n/a")), AnsDict(TextOkay, SText("")),
      AnsDict(TextOkay, SNum(5)), AnsDict(TextOkay, SNum(9)), AnsDict(TextOkay, SNum(18)),
      AnsDict(TextOkay, SText("inf")),
      AnsDict(TokModernCloud, SNum(2)), AnsDict(TextFive, SNone) }

NameAnswerObjects ==
    { AnsDict(TextOkay, SNone), AnsDict(TextOkay, SNum(5)), AnsDict(TokYes, SNone),
      AnsDict(TextOkay, SNum(18)), AnsDict(TokNo, SNone), AnsDict(TextOkay, SText("inf")) }

KeyAnswerObjects == { AnsStr(TokNo), AnsDict(TextOkay, SNum(8)) }

UsageAnswerObjects ==
    { AnsDict(TokNo, SNone), AnsStr(TextNoPadded), AnsDict(TextOkay, SNum(9)),
      AnsDict(TextOkay, SText("inf")), AnsDict(TokX, SNum(8)) }

\* the answer pool of each key of app["answers"]
KeyPool(key) ==
    CASE key = QName -> NameAnswerObjects
      [] key = KeyOpcos -> KeyAnswerObjects
      [] key = QUsage -> UsageAnswerObjects
      [] OTHER -> ScoreAnswerObjects

ScoreKeys == {QName, QOpcos, KeyOpcos, QUsage}

ScoreApps ==
    UNION {{f \in [S -> ScoreAnswerObjects \cup NameAnswerObjects \cup KeyAnswerObjects \cup UsageAnswerObjects] :
                \A key \in S : f[key] \in KeyPool(key)} : S \in SUBSET ScoreKeys}

CalculateScoreApp ==
    /\ ~scoreOut.app_done
    /\ scoreOut' = [scoreOut EXCEPT !.app_done = TRUE, !.app = calculate_score(scoreApp)]
    /\ UNCHANGED <<scoreApp, aggVars, recVars, resolveVars, cacheVars, evalVars,
                   matrixVars, storeVars, transcriptVars, batchVars, matchVars, approvalVars, sheetVars>>

CalculateScoreGen ==
    /\ ~scoreOut.gen_done
    /\ scoreOut' = [scoreOut EXCEPT !.gen_done = TRUE, !.gen = gen_calculate_score(scoreApp)]
    /\ UNCHANGED <<scoreApp, aggVars, recVars, resolveVars, cacheVars, evalVars,
                   matrixVars, storeVars, transcriptVars, batchVars, matchVars, approvalVars, sheetVars>>

InitScore ==
    /\ scoreApp \in ScoreApps
    /\ scoreOut = NotScored
    /\ AggIdle /\ RecIdle /\ ResolveIdle /\ CacheIdle /\ EvalIdle
    /\ MatrixIdle /\ StoreIdle /\ TranscriptIdle
    /\ BatchIdle /\ MatchIdle /\ ApprovalIdle /\ SheetIdle

NextScore == CalculateScoreApp \/ CalculateScoreGen

SpecScore == InitScore /\ [][NextScore]_vars

(***************************************************************************)
(* The decision matrix: get_subcategory_and_priority_detail, MATRIX_CONFIG *)
(* of the Excel export, SUBCATEGORY_OPTIONS and PRIORITY_MAP of the        *)
(* calculator page, and the priority each of them shows.                   *)
(***************************************************************************)
\* get_subcategory_and_priority_detail taking EVOLVE's subcategory from the
\* maintainability score only
get_subcategory_and_priority_detail_no_arch(recommendation, bvi, thi, arch_score, maint_score) ==
    CASE recommendation = "ELIMINATE" ->
            IF thi < 400 THEN <<"Replace", "P1 - Critical">>
            ELSE IF bvi > 500 THEN <<"Retire", "P1 - Critical">>
            ELSE <<"Absorbed", "P2 - Tactical">>
      [] recommendation = "INVEST" -> <<"Absorb", "P1 - Critical">>
      [] recommendation = "EVOLVE" ->
            IF maint_score <= 2 THEN <<"Migrate", "P1 - Critical">>
            ELSE IF bvi > 750 THEN <<"Enhance", "P2 - Strategic">>
            ELSE IF thi < 750 THEN <<"Refactor", "P2 - Strategic">>
            ELSE <<"Upgrade", "P2 - Strategic">>
      [] recommendation = "MAINTAIN" ->
            IF bvi > 500 THEN <<"Internalize", "P2 - Compliance">>
            ELSE <<"Maintain", "P3 - Routine">>
      [] OTHER -> <<"Unknown", "P3 - Routine">>

get_subcategory_and_priority_detail(recommendation, bvi, thi, arch_score, maint_score) ==
    CASE recommendation = "ELIMINATE" ->
            IF thi < 400 THEN <<"Replace", "P1 - Critical">>
            ELSE IF bvi > 500 THEN <<"Retire", "P1 - Critical">>
            ELSE <<"Absorbed", "P2 - Tactical">>
      [] recommendation = "INVEST" -> <<"Absorb", "P1 - Critical">>
      [] recommendation = "EVOLVE" ->
            IF arch_score <= 2 THEN <<"Modernize", "P1 - Critical">>
            ELSE IF maint_score <= 2 THEN <<"Migrate", "P1 - Critical">>
            ELSE IF bvi > 750 THEN <<"Enhance", "P2 - Strategic">>
            ELSE IF thi < 750 THEN <<"Refactor", "P2 - Strategic">>
            ELSE <<"Upgrade", "P2 - Strategic">>
      [] recommendation = "MAINTAIN" ->
            IF bvi > 500 THEN <<"Internalize", "P2 - Compliance">>
            ELSE <<"Maintain", "P3 - Routine">>
      [] OTHER -> <<"Unknown", "P3 - Routine">>

MATRIX_CONFIG ==
    << <<"ELIMINATE", "Replace", "P1 - Critical", "High Risk / EOL.">>,
       <<"ELIMINATE", "Retire", "P1 - Critical", "Decommission">>,
       <<"ELIMINATE", "Absorbed", "P2 - Tactical", "Consolidation">>,
       <<"INVEST", "Absorb", "P1 - Critical", "High Value Opportunity">>,
       <<"INVEST", "Modernize", "P1 - Critical", "Transformation">>,
       <<"EVOLVE", "Migrate", "P1 - Critical", "Platform shift">>,
       <<"EVOLVE", "Enhance", "P2 - Strategic", "Expansion">>,
       <<"EVOLVE", "Refactor", "P2 - Strategic", "Code quality">>,
       <<"EVOLVE", "Upgrade", "P2 - Strategic", "Version">>,
       <<"MAINTAIN", "Internalize", "P2 - Compliance", "Governance">>,
       <<"MAINTAIN", "Maintain", "P3 - Routine", "Keep lights on">> >>

SUBCATEGORY_OPTIONS ==
    [decision \in {"ELIMINATE", "INVEST", "EVOLVE", "MAINTAIN"} |->
        CASE decision = "ELIMINATE" -> {"Replace", "Retire", "Absorbed"}
          [] decision = "INVEST" -> {"Absorb", "Modernize"}
          [] decision = "EVOLVE" -> {"Migrate", "Enhance", "Refactor", "Upgrade"}
          [] decision = "MAINTAIN" -> {"Internalize", "Maintain"}]

PRIORITY_MAP ==
    [sub \in {"Replace", "Retire", "Absorb", "Modernize", "Migrate", "Absorbed", "Enhance",
              "Refactor", "Upgrade", "Internalize", "Maintain"} |->
        CASE sub \in {"Replace", "Retire", "Absorb", "Modernize", "Migrate"} -> "P1 - Critical"
          [] sub = "Absorbed" -> "P2 - Tactical"
          [] sub \in {"Enhance", "Refactor", "Upgrade"} -> "P2 - Strategic"
          [] sub = "Internalize" -> "P2 - Compliance"
          [] sub = "Maintain" -> "P3 - Routine"]

all_sub_options ==
    {"", "Absorb", "Absorbed", "Enhance", "Internalize", "Maintain", "Migrate", "Modernize",
     "Refactor", "Replace", "Retire", "Upgrade"}

\* the "P1" / "P2" / "P3" a priority label starts with
PriorityLevel(label) ==
    CASE label \in {"P1 - Critical", "P1 - Quick Win"} -> "P1"
      [] label \in {"P2 - Tactical", "P2 - Strategic", "P2 - Compliance", "P2 - Quick Win"} -> "P2"
      [] label = "P3 - Routine" -> "P3"
      [] OTHER -> ""

\* Escalate lifting a P3 base two levels
EscalateToTop(quick_win, base_priority) ==
    IF quick_win /\ PriorityLevel(base_priority) \in {"P2", "P3"} THEN "P1 - Quick Win"
    ELSE base_priority

\* the quick-win escalation, written out in both the calculator and the export
Escalate(quick_win, base_priority) ==
    IF quick_win /\ PriorityLevel(base_priority) = "P2" THEN "P1 - Quick Win"
    ELSE IF quick_win /\ PriorityLevel(base_priority) = "P3" THEN "P2 - Quick Win"
    ELSE base_priority

\* page_calculator: the priority of a row
WebPriority(subcategory, quick_win) ==
    IF subcategory # ""
    THEN Escalate(quick_win, Get(PRIORITY_MAP, subcategory, "P3 - Routine"))
    ELSE ""

\* page_calculator: whether an edited subcategory passes the validation
WebValid(subcategory, decision) ==
    ~(subcategory # "" /\ decision \in DOMAIN SUBCATEGORY_OPTIONS
        /\ subcategory \notin SUBCATEGORY_OPTIONS[decision])

\* generate_portfolio_excel: the base priority of (rec, subcategory)
ExcelBasePriority(rec, subcategory) ==
    LET own == {i \in 1..Len(MATRIX_CONFIG) :
                    MATRIX_CONFIG[i][1] = rec /\ MATRIX_CONFIG[i][2] = subcategory}
        any == {i \in 1..Len(MATRIX_CONFIG) : MATRIX_CONFIG[i][2] = subcategory}
    IN  IF own # {} THEN MATRIX_CONFIG[CHOOSE i \in own : \A j \in own : j <= i][3]
        ELSE IF any # {} THEN MATRIX_CONFIG[CHOOSE i \in any : \A j \in any : i <= j][3]
        ELSE ""

ExcelPriority(rec, subcategory, quick_win) ==
    IF subcategory # "" THEN Escalate(quick_win, ExcelBasePriority(rec, subcategory)) ELSE ""

DeriveDetail ==
    /\ detailOut.op = "none"
    /\ LET r == get_subcategory_and_priority_detail(detailIn.recommendation, detailIn.bvi,
                    detailIn.thi, detailIn.arch_score, detailIn.maint_score)
       IN  detailOut' = [op |-> "derive", subcategory |-> r[1], priority |-> r[2]]
    /\ UNCHANGED <<detailIn, aggVars, recVars, resolveVars, cacheVars, evalVars, scoreVars,
                   storeVars, transcriptVars, batchVars, matchVars, approvalVars, sheetVars>>

CalculatorRowPriority ==
    /\ detailOut.op = "none"
    /\ detailOut' = [op |-> "web", subcategory |-> detailIn.subcategory,
                     priority |-> WebPriority(detailIn.subcategory, detailIn.quick_win)]
    /\ UNCHANGED <<detailIn, aggVars, recVars, resolveVars, cacheVars, evalVars, scoreVars,
                   storeVars, transcriptVars, batchVars, matchVars, approvalVars, sheetVars>>

ExcelRowPriority ==
    /\ detailOut.op = "none"
    /\ detailOut' = [op |-> "excel", subcategory |-> detailIn.subcategory,
                     priority |-> ExcelPriority(detailIn.recommendation, detailIn.subcategory,
                                                detailIn.quick_win)]
    /\ UNCHANGED <<detailIn, aggVars, recVars, resolveVars, cacheVars, evalVars, scoreVars,
                   storeVars, transcriptVars, batchVars, matchVars, approvalVars, sheetVars>>

\* index values on both sides of 40, 50 and 75, in tenths
DetailIndexes == {0, 399, 400, 500, 501, 749, 750, 751, 1000}

DetailInputs ==
    [recommendation : {"EVOLVE", "INVEST", "MAINTAIN", "ELIMINATE", ""},
     bvi : DetailIndexes, thi : DetailIndexes,
     arch_score : MinScore..MaxScore, maint_score : MinScore..MaxScore,
     subcategory : {""}, quick_win : {FALSE}]

InitMatrix ==
    /\ detailIn \in DetailInputs
    /\ detailOut = NotDerived
    /\ AggIdle /\ RecIdle /\ ResolveIdle /\ CacheIdle /\ EvalIdle
    /\ ScoreIdle /\ StoreIdle /\ TranscriptIdle
    /\ BatchIdle /\ MatchIdle /\ ApprovalIdle /\ SheetIdle

NextMatrix == DeriveDetail

SpecMatrix == InitMatrix /\ [][NextMatrix]_vars

PriorityInputs ==
    [recommendation : {"EVOLVE", "INVEST", "MAINTAIN", "ELIMINATE"},
     bvi : {0}, thi : {0}, arch_score : {1}, maint_score : {1},
     subcategory : all_sub_options, quick_win : BOOLEAN]

InitPriority ==
    /\ detailIn \in PriorityInputs
    /\ detailOut = NotDerived
    /\ AggIdle /\ RecIdle /\ ResolveIdle /\ CacheIdle /\ EvalIdle
    /\ ScoreIdle /\ StoreIdle /\ TranscriptIdle
    /\ BatchIdle /\ MatchIdle /\ ApprovalIdle /\ SheetIdle

NextPriority == CalculatorRowPriority \/ ExcelRowPriority

SpecPriority == InitPriority /\ [][NextPriority]_vars

(***************************************************************************)
(* The stored human decision (Application.subcategory, .quick_win) and the *)
(* handlers that run around it: the calculator page, the score editor of   *)
(* the application page, the weight editor, an upload, the Excel export.   *)
(***************************************************************************)
Apps == {"a1", "a2"}

\* the subcategories the users pick in the data editor
StoreSubOptions == {"", "Enhance", "Modernize", "Maintain"}

StoreScoreInputs == {1, 3}

StoreWeightConfigs ==
    { SYNERGY_BLOCKS,
      [b \in Blocks |-> IF b = "Strategic Fit" THEN 0 ELSE SYNERGY_BLOCKS[b]] }

\* the stored decision of every application
Decisions(apps) ==
    [a \in DOMAIN apps |-> [subcategory |-> apps[a].subcategory, quick_win |-> apps[a].quick_win]]

\* the Decision column of an application's calculator row
RowDecision(row, custom_weights) ==
    LET r == AiCalculateBviThi(row.scores, custom_weights)
    IN  AiGetRecommendation(r[1], r[2])

StoreLogged(op, a, rejected) ==
    storeLog' = [op |-> op, app |-> a, before |-> Decisions(portfolio.apps),
                 rejected |-> rejected]

\* SaveScore that also empties the stored subcategory
SaveScoreReset(row, block_name, new_score) ==
    [row EXCEPT !.scores[block_name] = new_score, !.subcategory = ""]

\* page_applications, "Save Score": the approved score of one block is set
SaveScore(row, block_name, new_score) ==
    [row EXCEPT !.scores[block_name] = new_score]

\* page_calculator renders and nothing is edited
StoreRender ==
    /\ portfolio' = portfolio
    /\ StoreLogged("render", "", FALSE)
    /\ storeLog' # storeLog
    /\ UNCHANGED <<aggVars, recVars, resolveVars, cacheVars, evalVars, scoreVars,
                   matrixVars, transcriptVars, batchVars, matchVars, approvalVars, sheetVars>>

\* page_calculator: the user changes Subcategory or Quick Win of one row
StoreEdit(a, subcategory, quick_win) ==
    LET row == portfolio.apps[a]
        decision == RowDecision(row, portfolio.weights)
        rejected == ~WebValid(subcategory, decision)
    IN  /\ subcategory # row.subcategory \/ quick_win # row.quick_win
        /\ portfolio' =
              IF rejected THEN portfolio
              ELSE [portfolio EXCEPT !.apps[a].subcategory = subcategory,
                                     !.apps[a].quick_win = quick_win]
        /\ StoreLogged("edit", a, rejected)
        /\ UNCHANGED <<aggVars, recVars, resolveVars, cacheVars, evalVars, scoreVars,
                       matrixVars, transcriptVars, batchVars, matchVars, approvalVars, sheetVars>>

\* page_calculator, "Clear All Subcategories"
StoreClear ==
    /\ portfolio' = [portfolio EXCEPT !.apps =
            [a \in Apps |-> [portfolio.apps[a] EXCEPT !.subcategory = "", !.quick_win = FALSE]]]
    /\ StoreLogged("clear", "", FALSE)
    /\ UNCHANGED <<aggVars, recVars, resolveVars, cacheVars, evalVars, scoreVars,
                   matrixVars, transcriptVars, batchVars, matchVars, approvalVars, sheetVars>>

StoreSaveScore(a, block_name, new_score) ==
    /\ new_score # portfolio.apps[a].scores[block_name]
    /\ portfolio' = [portfolio EXCEPT !.apps[a] = SaveScore(@, block_name, new_score)]
    /\ StoreLogged("score", a, FALSE)
    /\ UNCHANGED <<aggVars, recVars, resolveVars, cacheVars, evalVars, scoreVars,
                   matrixVars, transcriptVars, batchVars, matchVars, approvalVars, sheetVars>>

\* the weight editor saves other weights
StoreWeights(custom_weights) ==
    /\ custom_weights # portfolio.weights
    /\ portfolio' = [portfolio EXCEPT !.weights = custom_weights]
    /\ StoreLogged("weights", "", FALSE)
    /\ UNCHANGED <<aggVars, recVars, resolveVars, cacheVars, evalVars, scoreVars,
                   matrixVars, transcriptVars, batchVars, matchVars, approvalVars, sheetVars>>

\* save_application_to_db for an application that exists: its row is reused
StoreUpload(a) ==
    /\ portfolio' = portfolio
    /\ StoreLogged("upload", a, FALSE)
    /\ storeLog' # storeLog
    /\ UNCHANGED <<aggVars, recVars, resolveVars, cacheVars, evalVars, scoreVars,
                   matrixVars, transcriptVars, batchVars, matchVars, approvalVars, sheetVars>>

\* generate_portfolio_excel reads the rows
StoreExport ==
    /\ portfolio' = portfolio
    /\ StoreLogged("export", "", FALSE)
    /\ storeLog' # storeLog
    /\ UNCHANGED <<aggVars, recVars, resolveVars, cacheVars, evalVars, scoreVars,
                   matrixVars, transcriptVars, batchVars, matchVars, approvalVars, sheetVars>>

InitStore ==
    /\ portfolio = [apps |-> [a \in Apps |-> [scores |-> [b \in Blocks |-> 3],
                                               subcategory |-> "", quick_win |-> FALSE]],
                    weights |-> SYNERGY_BLOCKS]
    /\ storeLog = NoStoreOp
    /\ AggIdle /\ RecIdle /\ ResolveIdle /\ CacheIdle /\ EvalIdle
    /\ ScoreIdle /\ MatrixIdle /\ TranscriptIdle
    /\ BatchIdle /\ MatchIdle /\ ApprovalIdle /\ SheetIdle

NextStore ==
    \/ StoreRender
    \/ \E a \in Apps, subcategory \in StoreSubOptions, quick_win \in BOOLEAN :
            StoreEdit(a, subcategory, quick_win)
    \/ StoreClear
    \/ \E a \in Apps, block_name \in EditableBlocks, new_score \in StoreScoreInputs :
            StoreSaveScore(a, block_name, new_score)
    \/ \E custom_weights \in StoreWeightConfigs : StoreWeights(custom_weights)
    \/ \E a \in Apps : StoreUpload(a)
    \/ StoreExport

SpecStore == InitStore /\ [][NextStore]_vars

(***************************************************************************)
(* Transcript answers: page_uploads stores what extract_answers_from_      *)
(* transcript returned, suggest_scores takes the stored rows.  Confidences *)
(* are in hundredths; an entry without the key has confidence NoKey.       *)
(***************************************************************************)
NoKey == -1

\* answer_data.get('confidence', 0)
GetConfidence(entry) == IF entry.confidence = NoKey THEN 0 ELSE entry.confidence

\* 0.3 and 0.5
StoreConfidence == 30
SuggestConfidence == 50

QUnlisted == "What did the meeting decide?"

MaxEntries == 3

ExtractedEntries ==
    [question : {QName, QUnlisted}, answer : {"", "Yes"},
     confidence : {NoKey, 30, 31, 50, 51}]

\* Stores that takes a confidence of exactly 0.3 too
StoresAtLeast(entry) == entry.answer # "" /\ GetConfidence(entry) >= StoreConfidence

\* page_uploads: the entry qualifies for a TranscriptAnswer row
Stores(entry) == entry.answer # "" /\ GetConfidence(entry) > StoreConfidence

HasQuestion(rows, question) == \E i \in 1..Len(rows) : rows[i].question = question

\* the loop over result['answers']: the rows it adds to the session.  A
\* qualifying entry is added unless the table (rows) already has a row for
\* its question; the session does not flush before a query, so a row added
\* earlier in the same loop is not seen by the query.
RECURSIVE StoreAnswers(_, _)
StoreAnswers(entries, rows) ==
    IF entries = <<>> THEN <<>>
    ELSE LET answer_data == Head(entries)
             added == IF Stores(answer_data) /\ ~HasQuestion(rows, answer_data.question)
                      THEN <<[question |-> answer_data.question,
                              answer |-> answer_data.answer,
                              confidence |-> answer_data.confidence]>>
                      ELSE <<>>
         IN  added \o StoreAnswers(Tail(entries), rows)

\* suggest_scores: the transcript answer joins combined_answers
Suggests(ta) == ta.answer # "" /\ GetConfidence(ta) > SuggestConfidence

\* the block whose MASTER_QUESTIONS list holds the question, if any
BlocksOf(question) ==
    {b \in Blocks : \E i \in 1..Len(MASTER_QUESTIONS[b]) : MASTER_QUESTIONS[b][i] = question}

CombinedAnswers(rows) == SelectSeq(rows, Suggests)

BlocksWithData(rows) ==
    UNION {BlocksOf(rows[i].question) : i \in {j \in 1..Len(rows) : Suggests(rows[j])}}

ProcessTranscript ==
    /\ transcriptOut.op = "none"
    /\ transcriptOut' = [transcriptOut EXCEPT !.op = "stored",
                                              !.stored = StoreAnswers(extracted, <<>>)]
    /\ UNCHANGED extracted
    /\ UNCHANGED <<aggVars, recVars, resolveVars, cacheVars, evalVars, scoreVars,
                   matrixVars, storeVars, batchVars, matchVars, approvalVars, sheetVars>>

SuggestScores ==
    /\ transcriptOut.op = "stored"
    /\ transcriptOut' = [transcriptOut EXCEPT
            !.op = "suggested",
            !.combined = CombinedAnswers(transcriptOut.stored),
            !.blocks_with_data = BlocksWithData(transcriptOut.stored)]
    /\ UNCHANGED extracted
    /\ UNCHANGED <<aggVars, recVars, resolveVars, cacheVars, evalVars, scoreVars,
                   matrixVars, storeVars, batchVars, matchVars, approvalVars, sheetVars>>

InitTranscript ==
    /\ extracted \in UNION {[1..n -> ExtractedEntries] : n \in 1..MaxEntries}
    /\ transcriptOut = NotProcessed
    /\ AggIdle /\ RecIdle /\ ResolveIdle /\ CacheIdle /\ EvalIdle
    /\ ScoreIdle /\ MatrixIdle /\ StoreIdle
    /\ BatchIdle /\ MatchIdle /\ ApprovalIdle /\ SheetIdle

NextTranscript == ProcessTranscript \/ SuggestScores

SpecTranscript == InitTranscript /\ [][NextTranscript]_vars

(***************************************************************************)
(* Transcript files: the Uploads page saves or processes a batch of files, *)
(* the Batch Operations page processes the queue of unprocessed ones.      *)
(* Every handler opens one session and closes it at its end; what was      *)
(* added to the session is written by the next commit of that session.     *)
(***************************************************************************)
Files == {"f1", "f2"}

\* a confidence that is no number (null, "high")
BadType == -2

\* the entry makes the loop's condition raise TypeError
Raises(entry) == entry.answer # "" /\ entry.confidence = BadType

BatchEntries ==
    { [question |-> QName, answer |-> "Yes", confidence |-> 51],
      [question |-> QName, answer |-> "Yes", confidence |-> BadType] }

MaxResult == 2

\* what the language service does for one file
ServiceOutcomes ==
    { [kind |-> k, answers |-> <<>>] : k \in {"throws", "bad_json"} }
    \cup { [kind |-> "json", answers |-> a] :
              a \in UNION {[1..n -> BatchEntries] : n \in 0..MaxResult} }

\* extract_answers_from_transcript: an exception of the call or of json.loads
\* becomes {"answers": []}
extract_answers_from_transcript(outcome) ==
    [raised |-> FALSE,
     answers |-> IF outcome.kind = "json" THEN outcome.answers ELSE <<>>]

RowsOf(rows, file) == SelectSeq(rows, LAMBDA r : r.transcript = file)

\* the entries the loop reaches before one raises
RECURSIVE Reached(_)
Reached(entries) ==
    IF entries = <<>> \/ Raises(Head(entries)) THEN <<>>
    ELSE <<Head(entries)>> \o Reached(Tail(entries))

LoopRaises(entries) == \E i \in 1..Len(entries) : Raises(entries[i])

Tagged(rows, file) ==
    [i \in 1..Len(rows) |-> [transcript |-> file, question |-> rows[i].question]]

\* the rows the loop adds to the session for the file
AddedRows(entries, file, table) ==
    Tagged(StoreAnswers(Reached(entries), RowsOf(table, file)), file)

\* what the service did, as the handlers can tell it apart
OutcomeClass(outcome) ==
    CASE outcome.kind # "json" -> outcome.kind
      [] outcome.answers = <<>> -> "empty"
      [] LoopRaises(outcome.answers) -> "malformed"
      [] OTHER -> "answers"

FileLog(file, was, outcome, called, raised) ==
    [file |-> file, was |-> was, outcome |-> OutcomeClass(outcome), called |-> called,
     raised |-> raised]

\* one state of a running handler: the tables, the session's added rows
Run(db) == [transcripts |-> db.transcripts, answers |-> db.answers, pending |-> <<>>,
            processed_count |-> 0, log |-> <<>>]

\* page_uploads, "process now": one file of the batch
ProcessFile(run, file, outcome) ==
    LET was == run.transcripts[file]
    IN  IF was = "processed"
        THEN [run EXCEPT !.log = Append(@, FileLog(file, was, outcome, FALSE, FALSE))]
        ELSE LET committed == run.answers \o run.pending
                 result == extract_answers_from_transcript(outcome)
                 added == AddedRows(result.answers, file, committed)
             IN  IF result.raised
                 THEN [run EXCEPT !.transcripts[file] = "unprocessed",
                                  !.answers = committed, !.pending = <<>>,
                                  !.log = Append(@, FileLog(file, was, outcome, TRUE, TRUE))]
                 ELSE IF result.answers = <<>>
                 THEN [run EXCEPT !.transcripts[file] = "unprocessed",
                                  !.answers = committed, !.pending = <<>>,
                                  !.processed_count = @ + 1,
                                  !.log = Append(@, FileLog(file, was, outcome, TRUE, FALSE))]
                 ELSE IF LoopRaises(result.answers)
                 THEN [run EXCEPT !.transcripts[file] = "unprocessed",
                                  !.answers = committed, !.pending = added,
                                  !.log = Append(@, FileLog(file, was, outcome, TRUE, TRUE))]
                 ELSE [run EXCEPT !.transcripts[file] = "processed",
                                  !.answers = committed \o added, !.pending = <<>>,
                                  !.processed_count = @ + 1,
                                  !.log = Append(@, FileLog(file, was, outcome, TRUE, FALSE))]

RECURSIVE ProcessFiles(_, _, _)
ProcessFiles(run, files, outcomes) ==
    IF files = <<>> THEN run
    ELSE ProcessFiles(ProcessFile(run, Head(files), Head(outcomes)),
                      Tail(files), Tail(outcomes))

\* the end of "process now": the recalculation's commit when a file counted
\* as processed, then the session is closed
FinishUpload(run) ==
    [transcripts |-> run.transcripts,
     answers |-> IF run.processed_count > 0 THEN run.answers \o run.pending
                 ELSE run.answers]

\* Batch Operations, "Process Transcript Queue": one unprocessed transcript
ProcessQueued(run, file, outcome) ==
    LET result == extract_answers_from_transcript(outcome)
        added == AddedRows(result.answers, file, run.answers)
    IN  IF result.raised
        THEN [run EXCEPT !.log = Append(@, FileLog(file, "unprocessed", outcome, TRUE, TRUE))]
        ELSE IF result.answers = <<>>
        THEN [run EXCEPT !.transcripts[file] = "processed",
                         !.answers = @ \o run.pending, !.pending = <<>>,
                         !.processed_count = @ + 1,
                         !.log = Append(@, FileLog(file, "unprocessed", outcome, TRUE, FALSE))]
        ELSE IF LoopRaises(result.answers)
        THEN [run EXCEPT !.pending = @ \o added,
                         !.log = Append(@, FileLog(file, "unprocessed", outcome, TRUE, TRUE))]
        ELSE [run EXCEPT !.transcripts[file] = "processed",
                         !.answers = @ \o run.pending \o added, !.pending = <<>>,
                         !.processed_count = @ + 1,
                         !.log = Append(@, FileLog(file, "unprocessed", outcome, TRUE, FALSE))]

RECURSIVE ProcessQueue(_, _, _)
ProcessQueue(run, files, outcomes) ==
    IF files = <<>> THEN run
    ELSE ProcessQueue(ProcessQueued(run, Head(files), Head(outcomes)),
                      Tail(files), Tail(outcomes))

\* the files a user can upload together, in the uploader's order
Batches ==
    { <<f>> : f \in Files } \cup { p \in Files \X Files : p[1] # p[2] }

\* how many transcript answers each file has
RowCounts(db) == [f \in Files |-> Len(RowsOf(db.answers, f))]

BatchLogged(op, log) ==
    batchLog' = [op |-> op, files |-> log, before |-> meetingDb.transcripts,
                 rows_before |-> RowCounts(meetingDb)]

\* page_uploads, "save only": new files become unprocessed transcripts
UploadSave(files) ==
    /\ \E i \in 1..Len(files) : meetingDb.transcripts[files[i]] = "absent"
    /\ meetingDb' = [meetingDb EXCEPT !.transcripts =
            [f \in Files |->
                IF meetingDb.transcripts[f] = "absent" /\ (\E i \in 1..Len(files) : files[i] = f)
                THEN "unprocessed" ELSE meetingDb.transcripts[f]]]
    /\ BatchLogged("save", [i \in 1..Len(files) |->
                        FileLog(files[i], meetingDb.transcripts[files[i]],
                                [kind |-> "none", answers |-> <<>>], FALSE, FALSE)])
    /\ UNCHANGED <<aggVars, recVars, resolveVars, cacheVars, evalVars, scoreVars,
                   matrixVars, storeVars, transcriptVars, matchVars, approvalVars, sheetVars>>

\* page_uploads, "process now"
UploadProcess(files, outcomes) ==
    LET run == ProcessFiles(Run(meetingDb), files, outcomes)
    IN  /\ meetingDb' = FinishUpload(run)
        /\ BatchLogged("process", run.log)
        /\ UNCHANGED <<aggVars, recVars, resolveVars, cacheVars, evalVars, scoreVars,
                       matrixVars, storeVars, transcriptVars, matchVars, approvalVars,
                       sheetVars>>

\* the unprocessed transcripts, in the table's order
Pending(db) ==
    LET all == <<"f1", "f2">>
    IN  SelectSeq(all, LAMBDA f : db.transcripts[f] = "unprocessed")

\* Batch Operations, "Process Transcript Queue"
QueueProcess(outcomes) ==
    LET files == Pending(meetingDb)
        run == ProcessQueue(Run(meetingDb), files, outcomes)
    IN  /\ files # <<>>
        /\ Len(outcomes) = Len(files)
        /\ meetingDb' = [transcripts |-> run.transcripts, answers |-> run.answers]
        /\ BatchLogged("queue", run.log)
        /\ UNCHANGED <<aggVars, recVars, resolveVars, cacheVars, evalVars, scoreVars,
                       matrixVars, storeVars, transcriptVars, matchVars, approvalVars,
                       sheetVars>>

OutcomeLists(n) == [1..n -> ServiceOutcomes]

InitBatch ==
    /\ meetingDb = [transcripts |-> [f \in Files |-> "absent"], answers |-> <<>>]
    /\ batchLog = NoBatch
    /\ AggIdle /\ RecIdle /\ ResolveIdle /\ CacheIdle /\ EvalIdle
    /\ ScoreIdle /\ MatrixIdle /\ StoreIdle /\ TranscriptIdle
    /\ MatchIdle /\ ApprovalIdle /\ SheetIdle

NextBatch ==
    \/ \E files \in Batches : UploadSave(files)
    \/ \E files \in Batches : \E outcomes \in OutcomeLists(Len(files)) :
            UploadProcess(files, outcomes)
    \/ \E n \in 1..2 : \E outcomes \in OutcomeLists(n) : QueueProcess(outcomes)

SpecBatch == InitBatch /\ [][NextBatch]_vars

(***************************************************************************)
(* Matching a raw question text to the master list: difflib's ratio and    *)
(* get_close_matches as the three parsers use them.  A ratio 2*M/T is the  *)
(* pair [num, den].                                                        *)
(***************************************************************************)
MatchAlphabet == <<"a", "b", "c", "x", "y", "z">>

\* the master list the matcher is run against, in list order
ALL_QUESTIONS_FLAT == << <<"a", "b", "c", "x">>, <<"a", "b", "c", "y">> >>

MaxRawLen == 4

RawQuestions ==
    UNION {[1..n -> {"a", "b", "c", "x", "z"}] : n \in 1..MaxRawLen}

\* SequenceMatcher.find_longest_match: the longest common block, the one
\* starting earliest in a, then earliest in b
CommonBlocks(a, b) ==
    { m \in (1..Len(a)) \X (1..Len(b)) \X (1..Len(a)) :
        /\ m[1] + m[3] - 1 <= Len(a)
        /\ m[2] + m[3] - 1 <= Len(b)
        /\ SubSeq(a, m[1], m[1] + m[3] - 1) = SubSeq(b, m[2], m[2] + m[3] - 1) }

find_longest_match(a, b) ==
    LET blocks == CommonBlocks(a, b)
    IN  CHOOSE m \in blocks :
            \A o \in blocks :
                \/ m[3] > o[3]
                \/ m[3] = o[3] /\ m[1] < o[1]
                \/ m[3] = o[3] /\ m[1] = o[1] /\ m[2] <= o[2]

\* SequenceMatcher.get_matching_blocks: the number of matched characters
RECURSIVE Matched(_, _)
Matched(a, b) ==
    IF CommonBlocks(a, b) = {} THEN 0
    ELSE LET m == find_longest_match(a, b)
         IN  m[3] + Matched(SubSeq(a, 1, m[1] - 1), SubSeq(b, 1, m[2] - 1))
                  + Matched(SubSeq(a, m[1] + m[3], Len(a)), SubSeq(b, m[2] + m[3], Len(b)))

\* SequenceMatcher(None, a, b).ratio()
Ratio(a, b) == [num |-> 2 * Matched(a, b), den |-> Len(a) + Len(b)]

RatioLess(r, q) == r.num * q.den < q.num * r.den

\* r >= percent / 100
AtLeast(r, percent) == r.num * 100 >= percent * r.den

\* r > percent / 100
Above(r, percent) == r.num * 100 > percent * r.den

CharIndex(c) == CHOOSE i \in 1..Len(MatchAlphabet) : MatchAlphabet[i] = c

\* s < t as Python compares strings
RECURSIVE TextLess(_, _)
TextLess(s, t) ==
    IF t = <<>> THEN FALSE
    ELSE IF s = <<>> THEN TRUE
    ELSE IF Head(s) # Head(t) THEN CharIndex(Head(s)) < CharIndex(Head(t))
    ELSE TextLess(Tail(s), Tail(t))

NoMatch == <<>>

\* the 0.75 of parse_questionnaire_excel and parse_wb, the 0.85 of parse_sheet
WebCutoff == 75
WbCutoff == 75
GenCutoff == 85

\* difflib.get_close_matches(word, possibilities, n=1, cutoff): of the
\* candidates with ratio >= cutoff the maximum of (ratio, candidate)
get_close_matches(word, possibilities, cutoff) ==
    LET close == { i \in 1..Len(possibilities) :
                     AtLeast(Ratio(possibilities[i], word), cutoff) }
        Score(i) == Ratio(possibilities[i], word)
    IN  IF close = {} THEN NoMatch
        ELSE possibilities[
                CHOOSE i \in close :
                    \A j \in close \ {i} :
                        \/ RatioLess(Score(j), Score(i))
                        \/ /\ ~RatioLess(Score(i), Score(j))
                           /\ ~TextLess(possibilities[i], possibilities[j]) ]

\* parse_questionnaire_excel's loop: the first master question with the
\* highest ratio to the lowered text, taken when that ratio is above 0.75
WebBestIndex(question_text) ==
    LET Score(i) == Ratio(Lower(question_text), Lower(ALL_QUESTIONS_FLAT[i]))
    IN  CHOOSE i \in 1..Len(ALL_QUESTIONS_FLAT) :
            /\ \A j \in 1..Len(ALL_QUESTIONS_FLAT) : ~RatioLess(Score(i), Score(j))
            /\ \A j \in 1..(i - 1) : RatioLess(Score(j), Score(i))

WebMatch(question_text) ==
    LET i == WebBestIndex(question_text)
        best_ratio == Ratio(Lower(question_text), Lower(ALL_QUESTIONS_FLAT[i]))
    IN  IF Above(best_ratio, WebCutoff) THEN ALL_QUESTIONS_FLAT[i] ELSE NoMatch

WbMatch(q_str) == get_close_matches(q_str, ALL_QUESTIONS_FLAT, WbCutoff)

GenMatch(q_str) == get_close_matches(q_str, ALL_QUESTIONS_FLAT, GenCutoff)

MatchWeb ==
    /\ ~matchOut.web.done
    /\ matchOut' = [matchOut EXCEPT !.web = [done |-> TRUE, match |-> WebMatch(matchIn)]]
    /\ UNCHANGED matchIn
    /\ UNCHANGED <<aggVars, recVars, resolveVars, cacheVars, evalVars, scoreVars,
                   matrixVars, storeVars, transcriptVars, batchVars, approvalVars, sheetVars>>

MatchWb ==
    /\ ~matchOut.wb.done
    /\ matchOut' = [matchOut EXCEPT !.wb = [done |-> TRUE, match |-> WbMatch(matchIn)]]
    /\ UNCHANGED matchIn
    /\ UNCHANGED <<aggVars, recVars, resolveVars, cacheVars, evalVars, scoreVars,
                   matrixVars, storeVars, transcriptVars, batchVars, approvalVars, sheetVars>>

MatchGen ==
    /\ ~matchOut.gen.done
    /\ matchOut' = [matchOut EXCEPT !.gen = [done |-> TRUE, match |-> GenMatch(matchIn)]]
    /\ UNCHANGED matchIn
    /\ UNCHANGED <<aggVars, recVars, resolveVars, cacheVars, evalVars, scoreVars,
                   matrixVars, storeVars, transcriptVars, batchVars, approvalVars, sheetVars>>

InitMatch ==
    /\ matchIn \in RawQuestions
    /\ matchOut = NotMatched
    /\ AggIdle /\ RecIdle /\ ResolveIdle /\ CacheIdle /\ EvalIdle
    /\ ScoreIdle /\ MatrixIdle /\ StoreIdle /\ TranscriptIdle
    /\ BatchIdle /\ ApprovalIdle /\ SheetIdle

NextMatch == MatchWeb \/ MatchWb \/ MatchGen

SpecMatch == InitMatch /\ [][NextMatch]_vars

(***************************************************************************)
(* The approved SynergyScore rows of one application and the handlers that *)
(* write them: automatic scoring on a questionnaire upload, automatic      *)
(* recalculation after transcripts, the manual score editor.               *)
(***************************************************************************)
\* the blocks followed here, two of SYNERGY_BLOCKS
ApprovalBlocks == {"Strategic Fit", "Architecture"}

ApprovalOrder == <<"Strategic Fit", "Architecture">>

AutoApprover == "auto_ai_generated"
ManualApprover == "manual_edit"

\* the score of suggest_scores' default rows
PlaceholderScore == 2

\* the slider's value for a block without a score
SliderDefault == 3

SuggestedScores == {3, 4}
ManualScores == {1, 5}

\* what the language service does for a score suggestion
SuggestOutcomes ==
    {[failed |-> TRUE, scores |-> EmptyDict]}
    \cup { [failed |-> FALSE, scores |-> f] :
              f \in UNION {[S -> SuggestedScores] : S \in SUBSET ApprovalBlocks} }

\* suggest_scores: result["scores"], with the blocks without data overridden
\* and, when the call fails, the default score for every block
suggest_scores(outcome, blocks_with_data) ==
    IF outcome.failed THEN [b \in ApprovalBlocks |-> PlaceholderScore]
    ELSE [b \in DOMAIN outcome.scores \cup (ApprovalBlocks \ blocks_with_data) |->
            IF b \in blocks_with_data THEN outcome.scores[b] ELSE PlaceholderScore]

ScoreRow(block_name, score, approved_by) ==
    [block_name |-> block_name, score |-> score, approved_by |-> approved_by]

\* the rows added for result['scores']
NewAutoRows(result) ==
    LET blocks == SelectSeq(ApprovalOrder, LAMBDA b : b \in DOMAIN result)
    IN  [i \in 1..Len(blocks) |-> ScoreRow(blocks[i], result[blocks[i]], AutoApprover)]

\* query(SynergyScore).filter_by(approved_by='auto_ai_generated').delete()
WithoutAuto(rows) == SelectSeq(rows, LAMBDA r : r.approved_by # AutoApprover)

HasManual(rows) == \E i \in 1..Len(rows) : rows[i].approved_by # AutoApprover

BlockRows(rows, block_name) == SelectSeq(rows, LAMBDA r : r.block_name = block_name)

\* scores = {s.block_name: s.score for s in scores_data}: the last row of a
\* block gives its value
UsedScores(rows) ==
    [b \in {rows[i].block_name : i \in 1..Len(rows)} |->
        BlockRows(rows, b)[Len(BlockRows(rows, b))].score]

ApprovalLogged(op, failed) ==
    approvalLog' = [op |-> op, failed |-> failed, before |-> synergy]

\* page_uploads, questionnaire tab, step 2 for one application
AutoScoreUpload(enough_answers, outcome, blocks_with_data) ==
    LET result == suggest_scores(outcome, blocks_with_data)
    IN  /\ synergy' =
              IF HasManual(synergy) \/ ~enough_answers THEN synergy
              ELSE WithoutAuto(synergy) \o NewAutoRows(result)
        /\ ApprovalLogged("upload", outcome.failed /\ ~HasManual(synergy) /\ enough_answers)
        /\ approvalLog' # approvalLog
        /\ UNCHANGED <<aggVars, recVars, resolveVars, cacheVars, evalVars, scoreVars,
                       matrixVars, storeVars, transcriptVars, batchVars, matchVars, sheetVars>>

\* page_uploads, transcript tab: the recalculation for one application
RecalculateAfterTranscripts(has_data, outcome, blocks_with_data) ==
    LET result == suggest_scores(outcome, blocks_with_data)
    IN  /\ synergy' =
              IF ~has_data \/ result = EmptyDict THEN synergy
              ELSE WithoutAuto(synergy) \o NewAutoRows(result)
        /\ ApprovalLogged("recalc", outcome.failed /\ has_data)
        /\ approvalLog' # approvalLog
        /\ UNCHANGED <<aggVars, recVars, resolveVars, cacheVars, evalVars, scoreVars,
                       matrixVars, storeVars, transcriptVars, batchVars, matchVars, sheetVars>>

FirstRowOf(rows, block_name) ==
    CHOOSE i \in 1..Len(rows) :
        /\ rows[i].block_name = block_name
        /\ \A j \in 1..(i - 1) : rows[j].block_name # block_name

\* page_applications, "Save Score"
ManualEdit(block_name, new_score) ==
    LET scores_dict == UsedScores(synergy)
        current_score == IF block_name \in DOMAIN scores_dict THEN scores_dict[block_name]
                         ELSE SliderDefault
    IN  /\ new_score # current_score
        /\ synergy' =
              IF BlockRows(synergy, block_name) # <<>>
              THEN [synergy EXCEPT ![FirstRowOf(synergy, block_name)] =
                        ScoreRow(block_name, new_score, ManualApprover)]
              ELSE Append(synergy, ScoreRow(block_name, new_score, ManualApprover))
        /\ ApprovalLogged("manual", FALSE)
        /\ UNCHANGED <<aggVars, recVars, resolveVars, cacheVars, evalVars, scoreVars,
                       matrixVars, storeVars, transcriptVars, batchVars, matchVars, sheetVars>>

InitApproval ==
    /\ synergy = <<>>
    /\ approvalLog = NoApproval
    /\ AggIdle /\ RecIdle /\ ResolveIdle /\ CacheIdle /\ EvalIdle
    /\ ScoreIdle /\ MatrixIdle /\ StoreIdle /\ TranscriptIdle
    /\ BatchIdle /\ MatchIdle /\ SheetIdle

NextApproval ==
    \/ \E enough_answers \in BOOLEAN, outcome \in SuggestOutcomes,
          blocks_with_data \in SUBSET ApprovalBlocks :
            AutoScoreUpload(enough_answers, outcome, blocks_with_data)
    \/ \E has_data \in BOOLEAN, outcome \in SuggestOutcomes,
          blocks_with_data \in SUBSET ApprovalBlocks :
            RecalculateAfterTranscripts(has_data, outcome, blocks_with_data)
    \/ \E block_name \in ApprovalBlocks, new_score \in ManualScores :
            ManualEdit(block_name, new_score)

SpecApproval == InitApproval /\ [][NextApproval]_vars

(***************************************************************************)
(* One questionnaire sheet read row by row: parse_wb (src/app.py) and      *)
(* parse_sheet (generate_apm_strategic.py).  Cells are texts; a row's      *)
(* score cell is kept with the answer.                                     *)
(***************************************************************************)
QuestionMark == "?"

\* question cells: empty, the two master questions, free text, a question
\* that is not in the master list
QuestionCells ==
    { <<>>, <<"a", "b", "c", "x">>, <<"a", "b", "c", "y">>, <<"z", "z">>,
      <<"z", "z", QuestionMark>> }

AnswerCells == { <<>>, <<"o", "k">> }

ScoreCells == { NoScore, 3 }

SheetRowPool == [q : QuestionCells, a : AnswerCells, s : ScoreCells]

MaxSheetRows == 3

\* q_str.endswith("?")
EndsWithQuestionMark(q_str) == q_str # <<>> /\ q_str[Len(q_str)] = QuestionMark

WithAnswer(current_answers, q, a, s) ==
    [k \in DOMAIN current_answers \cup {q} |->
        IF k = q THEN [a |-> a, s |-> s] ELSE current_answers[k]]

\* the assignment empties an answer that was not empty
Blanks(current_answers, q, a) ==
    q \in DOMAIN current_answers /\ current_answers[q].a # <<>> /\ a = <<>>

StartOfSheet == [answers |-> EmptyDict, current_q |-> NoMatch, blanked |-> FALSE]

\* the body of the row loop, with the parser's cutoff
ParseRow(st, row, cutoff) ==
    LET q_str == Strip(row.q)
        a_str == Strip(row.a)
        match == get_close_matches(q_str, ALL_QUESTIONS_FLAT, cutoff)
    IN  IF q_str = <<>> /\ a_str = <<>> THEN st
        ELSE IF match # NoMatch
        THEN IF a_str # <<>>
             THEN [answers |-> WithAnswer(st.answers, match, a_str, row.s),
                   current_q |-> match, blanked |-> st.blanked]
             ELSE [st EXCEPT !.current_q = match]
        ELSE IF st.current_q # NoMatch /\ ~EndsWithQuestionMark(q_str)
        THEN [answers |-> WithAnswer(st.answers, st.current_q, q_str, row.s),
              current_q |-> st.current_q,
              blanked |-> st.blanked \/ Blanks(st.answers, st.current_q, q_str)]
        ELSE st

RECURSIVE ParseRows(_, _, _)
ParseRows(st, rows, cutoff) ==
    IF rows = <<>> THEN st
    ELSE ParseRows(ParseRow(st, Head(rows), cutoff), Tail(rows), cutoff)

Read(st) == [done |-> TRUE, answers |-> st.answers, blanked |-> st.blanked]

\* src/app.py parse_wb, one sheet
parse_wb ==
    /\ ~sheetOut.wb.done
    /\ sheetOut' = [sheetOut EXCEPT !.wb = Read(ParseRows(StartOfSheet, sheetRows, WbCutoff))]
    /\ UNCHANGED sheetRows
    /\ UNCHANGED <<aggVars, recVars, resolveVars, cacheVars, evalVars, scoreVars,
                   matrixVars, storeVars, transcriptVars, batchVars, matchVars, approvalVars>>

\* generate_apm_strategic.py parse_sheet
parse_sheet ==
    /\ ~sheetOut.gen.done
    /\ sheetOut' = [sheetOut EXCEPT !.gen = Read(ParseRows(StartOfSheet, sheetRows, GenCutoff))]
    /\ UNCHANGED sheetRows
    /\ UNCHANGED <<aggVars, recVars, resolveVars, cacheVars, evalVars, scoreVars,
                   matrixVars, storeVars, transcriptVars, batchVars, matchVars, approvalVars>>

InitSheet ==
    /\ sheetRows \in UNION {[1..n -> SheetRowPool] : n \in 1..MaxSheetRows}
    /\ sheetOut = NotParsed
    /\ AggIdle /\ RecIdle /\ ResolveIdle /\ CacheIdle /\ EvalIdle
    /\ ScoreIdle /\ MatrixIdle /\ StoreIdle /\ TranscriptIdle
    /\ BatchIdle /\ MatchIdle /\ ApprovalIdle

NextSheet == parse_wb \/ parse_sheet

SpecSheet == InitSheet /\ [][NextSheet]_vars

(***************************************************************************)
(* Properties of the classifier and of the aggregator                      *)
(***************************************************************************)
Recommendations == {"EVOLVE", "INVEST", "MAINTAIN", "ELIMINATE"}

Abs(x) == IF x < 0 THEN -x ELSE x

MatrixCell(rec, bvi, thi) ==
    /\ rec \in Recommendations
    /\ (rec = "EVOLVE") <=> (bvi >= 600 /\ thi >= 600)
    /\ (rec = "INVEST") <=> (bvi >= 600 /\ thi < 600)
    /\ (rec = "MAINTAIN") <=> (bvi < 600 /\ thi >= 600)
    /\ (rec = "ELIMINATE") <=> (bvi < 600 /\ thi < 600)

\* C1: get_recommendation is total on [0,100] x [0,100]: each copy returns the
\* one recommendation the claim's table gives (60.0 inclusive on both axes),
\* so (60, 60) is EVOLVE, and the two copies agree on every input.
C1_ClassifierTotal ==
    /\ recAi # "" => MatrixCell(recAi, argBvi, argThi)
    /\ recXl # "" => MatrixCell(recXl, argBvi, argThi)
    /\ (recAi # "" /\ recXl # "") => recAi = recXl
    /\ (argBvi = 600 /\ argThi = 600 /\ recAi # "") => recAi = "EVOLVE"

C1_Witness ==
    argBvi = 600 /\ argThi = 600 /\ recAi = "EVOLVE" /\ recXl = "EVOLVE"

\* The index the claim's formula gives for a group, compared in tenths:
\* idx is (sum score_i * weight_i) / (sum weight_i) * 20 to one decimal.
ClaimedIndex(group, idx) ==
    LET W == SumOver([b \in group |-> weights[b]], group)
        S == SumOver([b \in group |-> scores[b] * weights[b]], group)
    IN  W > 0 => 2 * Abs(idx * W - 200 * S) <= W

Scored(group) == group \subseteq DOMAIN scores
Weighted == DOMAIN weights = Blocks

\* C2: with every block of a group scored 1..5 and a positive weight sum,
\* ai_processor.calculate_bvi_thi returns the weighted mean times 20 to one
\* decimal; scores (4,1,1,1) under 30/30/20/20 give 38.0, and all eight
\* blocks at 3 under the default weights give 60.0, 60.0 and EVOLVE.
C2_WeightedIndex ==
    (aggOut.op \in {"ai", "web"} /\ aggOut.shown /\ Weighted) =>
        /\ Scored(business_blocks) => ClaimedIndex(business_blocks, aggOut.bvi)
        /\ Scored(tech_blocks) => ClaimedIndex(tech_blocks, aggOut.thi)
        /\ ( /\ weights = SYNERGY_BLOCKS
             /\ Scored(business_blocks)
             /\ scores["Strategic Fit"] = 4
             /\ \A b \in business_blocks \ {"Strategic Fit"} : scores[b] = 1 )
           => aggOut.bvi = 380
        /\ (weights = SYNERGY_BLOCKS /\ scores = [b \in Blocks |-> 3])
           => (aggOut.bvi = 600 /\ aggOut.thi = 600 /\ aggOut.rec = "EVOLVE")

C2_Witness ==
    /\ aggOut.op = "ai"
    /\ weights = SYNERGY_BLOCKS
    /\ Scored(business_blocks)
    /\ scores["Strategic Fit"] = 4
    /\ \A b \in business_blocks \ {"Strategic Fit"} : scores[b] = 1
    /\ aggOut.bvi = 380

\* A group has no data: none of its blocks is scored, or its weights are all 0.
Unscored(group) == \A b \in group : b \notin DOMAIN scores
ZeroWeighted(group) == \A b \in group : b \in DOMAIN weights /\ weights[b] = 0
NoData(group) == Unscored(group) \/ ZeroWeighted(group)

\* C3: for a group whose weights sum to 0, or none of whose blocks is scored,
\* the aggregator reports the index as undefined and never as a number.
C3_UndefinedIndex ==
    (aggOut.op # "none" /\ aggOut.shown) =>
        /\ NoData(business_blocks) => aggOut.bvi \notin Int
        /\ NoData(tech_blocks) => aggOut.thi \notin Int

\* C4: when BVI or THI is undefined the application gets no recommendation,
\* on the web page and in the Excel workbook; an application without any
\* approved score is not classified ELIMINATE.
C4_NoDataNoRecommendation ==
    (aggOut.op \in {"web", "excel"} /\ aggOut.shown) =>
        /\ (NoData(business_blocks) \/ NoData(tech_blocks)) => aggOut.rec \notin Recommendations
        /\ DOMAIN scores = {} => aggOut.rec # "ELIMINATE"

(***************************************************************************)
(* Properties of the answer resolvers                                      *)
(***************************************************************************)
TrimmedLen(text) == Len(Strip(text))

\* the id of the stored application, and the stored answer row of a question
StoredAppId == (CHOOSE r \in applications : r.name = AppName).id
StoredIndex(rows, q) == IF applications = {} THEN 0 ELSE FirstAnswer(rows, StoredAppId, q)

SavedOk == pipeline = "save" /\ saveLog.done /\ saveLog.ok
Merged == pipeline = "merge" /\ mergeLog.done

Holds(row, answer_obj) == row.answer_text = answer_obj.a /\ row.score = answer_obj.s

C6_TrivialNeverOverwrites ==
    /\ Merged =>
        \A q \in DOMAIN mergeLog.new \cap DOMAIN mergeLog.before :
            TrimmedLen(mergeLog.new[q].a) <= 1 => base_answers[q] = mergeLog.before[q]
    /\ SavedOk =>
        \A q \in DOMAIN saveLog.app_data.answers :
            LET old == StoredIndex(saveLog.before, q)
            IN  (old > 0 /\ TrimmedLen(saveLog.app_data.answers[q].a) < 5) =>
                    (StoredIndex(answers, q) = old /\ answers[old] = saveLog.before[old])

C6_Witness ==
    /\ SavedOk
    /\ \E q \in DOMAIN saveLog.app_data.answers :
        LET old == StoredIndex(saveLog.before, q)
        IN  /\ old > 0
            /\ saveLog.before[old].answer_text = TextOkay
            /\ saveLog.app_data.answers[q].a = TextN
            /\ answers[old] = saveLog.before[old]

\* C7: the same batch applied a second time in a row changes nothing: the
\* resolved answers are those left by the first application, no record added.
C7_Idempotent ==
    /\ (Merged /\ mergeLog.repeated) => base_answers = mergeLog.before
    /\ (SavedOk /\ saveLog.repeated) => answers = saveLog.before

C7_Witness ==
    /\ SavedOk /\ saveLog.repeated
    /\ \E q \in DOMAIN saveLog.app_data.answers : saveLog.app_data.answers[q].a = TextCloud
    /\ Len(answers) = 2

\* C8: at most one answer record per (application, question), also when the
\* saves of two user sessions interleave.
C8_OneRecordPerQuestion ==
    \A i, j \in 1..Len(answers) :
        (answers[i].application_id = answers[j].application_id
            /\ answers[i].question_text = answers[j].question_text) => i = j

(***************************************************************************)
(* Properties of the weight cache                                          *)
(***************************************************************************)
\* C9: after a block weight is edited and saved, every later BVI/THI
\* computation, on any page and in any user session, uses the new weight.
C9_NewWeightEverywhere ==
    (lastEdit.done /\ calcLog.done) =>
        /\ lastEdit.block \in DOMAIN calcLog.used
        /\ calcLog.used[lastEdit.block] = lastEdit.value

(***************************************************************************)
(* Properties of the keyword evaluator                                     *)
(***************************************************************************)
IsOverride(t) ==
    (Contains(t, WordSecurity) \/ Contains(t, WordIam)) /\ Contains(t, WordNo)

\* the texts C10 is about
KeywordCase(text) ==
    /\ TrimmedLen(text) >= 2
    /\ Strip(Lower(text)) \notin {WordNo, WordYes}
    /\ ~IsOverride(Lower(text))

ClaimedScore(posHits, negHits) ==
    IF posHits > 2 /\ negHits = 0 THEN 5
    ELSE IF posHits > negHits THEN 4
    ELSE IF negHits > posHits /\ negHits <= 1 THEN 2
    ELSE IF negHits > posHits /\ negHits > 1 THEN 1
    ELSE 3

\* C10: outside the exact yes/no and the security/iam override the evaluator
\* returns 5 if posHits > 2 and negHits = 0, else 4 if posHits > negHits, 2 if
\* negHits > posHits and negHits <= 1, 1 if negHits > posHits and negHits > 1,
\* and 3 if posHits = negHits; 1 is returned only when negHits > posHits.
C10_KeywordCascade ==
    KeywordCase(evalText) =>
        LET claimed == ClaimedScore(PosHits(Lower(evalText)), NegHits(Lower(evalText)))
        IN  /\ evalOut.app_done => evalOut.app = claimed
            /\ evalOut.gen_done => evalOut.gen = claimed

(***************************************************************************)
(* Properties of the block scorer                                          *)
(***************************************************************************)
\* the results of the copies of calculate_score that have run
ScoreResults ==
    (IF scoreOut.app_done THEN {scoreOut.app} ELSE {}) \cup
    (IF scoreOut.gen_done THEN {scoreOut.gen} ELSE {})

ExactlyNo(a) == Strip(Lower(a)) = WordNo
ExactlyYes(a) == Strip(Lower(a)) = WordYes

\* a block in which question i is answered exactly "no" and no other is answered
OnlyNo(qa, i) ==
    /\ ExactlyNo(qa[i].a)
    /\ \A j \in 1..Len(qa) : j # i => qa[j].a = TextEmpty

\* C11: an answer that is exactly "no" has text score 1, one that is exactly
\* "yes" has text score 4; a question answered exactly "no" in an otherwise
\* unanswered block scores 1 and is the one counted question of the block.
C11_ExactNoYes ==
    \A r \in ScoreResults : \A b \in Blocks :
        LET qa == r.blocks[b].qa
        IN  \A i \in 1..Len(qa) :
                /\ ExactlyNo(qa[i].a) => qa[i].t = 1
                /\ ExactlyYes(qa[i].a) => qa[i].t = 4
                /\ OnlyNo(qa, i) => (qa[i].s = Finite(2) /\ r.blocks[b].cnt = 1)

C11_Witness ==
    /\ scoreOut.app_done /\ scoreOut.gen_done
    /\ LET blk == scoreOut.app.blocks["Strategic Fit"]
       IN  /\ blk.qa[1].a = TextEmpty
           /\ blk.qa[2].a = TextNoPadded
           /\ blk.qa[2].s = Finite(2)
           /\ blk.cnt = 1

\* the results of the copies of evaluate_answer_text that have run
EvalResults ==
    (IF evalOut.app_done THEN {evalOut.app} ELSE {}) \cup
    (IF evalOut.gen_done THEN {evalOut.gen} ELSE {})

\* C12: a text of trimmed length >= 2 that contains "security" or "iam" and
\* contains "no" anywhere gets 1, whatever the keyword counts are.
C12_SecurityOverride ==
    (TrimmedLen(evalText) >= 2 /\ IsOverride(Lower(evalText))) =>
        \A r \in EvalResults : r = 1

C12_Witness ==
    /\ evalOut.app_done /\ evalOut.gen_done
    /\ evalText = TokModernCloud \o TokIam \o TokNo
    /\ PosHits(Lower(evalText)) > NegHits(Lower(evalText))
    /\ evalOut.app = 1 /\ evalOut.gen = 1

\* the answer object each copy of calculate_score finds for a question
FoundBy(copy, q) ==
    IF copy = "app" THEN get_ans(scoreApp, q) ELSE gen_get_ans(scoreApp, q)

ScoreCopies ==
    (IF scoreOut.app_done THEN {"app"} ELSE {}) \cup
    (IF scoreOut.gen_done THEN {"gen"} ELSE {})

ResultOf(copy) == IF copy = "app" THEN scoreOut.app ELSE scoreOut.gen

\* the supplied score parses to a number >= 1
NumericAtLeastOne(sv) ==
    \/ sv.k = "num" /\ sv.x2 >= 2
    \/ sv.k = "text" /\ sv.v = "inf"

SuppliedNumber(sv) ==
    IF sv.k = "num" THEN [inf |-> FALSE, x2 |-> sv.x2] ELSE [inf |-> TRUE, x2 |-> 0]

ClaimedQuestionScore(a, sv, textScore) ==
    IF Len(a) < 2 THEN [inf |-> FALSE, x2 |-> 0]
    ELSE IF textScore <= 2 THEN [inf |-> FALSE, x2 |-> 2 * textScore]
    ELSE IF NumericAtLeastOne(sv) THEN SuppliedNumber(sv)
    ELSE [inf |-> FALSE, x2 |-> 2 * textScore]

\* C13: a question scores 0 when its answer text is shorter than 2, else its
\* text score when that is <= 2, else the supplied score when it parses to a
\* number >= 1, else its text score; a non-numeric or non-positive supplied
\* score raises nothing.
C13_QuestionScore ==
    \A copy \in ScoreCopies :
        LET r == ResultOf(copy)
        IN  /\ \A b \in Blocks : \A i \in 1..Len(r.blocks[b].qa) :
                LET row == r.blocks[b].qa[i]
                    ans_obj == FoundBy(copy, row.q)
                IN  /\ row.a = ans_obj.a
                    /\ row.s = ClaimedQuestionScore(ans_obj.a, ans_obj.s, row.t)
            /\ r.raised =>
                \E q \in AllQuestions :
                    FoundBy(copy, q).s.k = "text" /\ FoundBy(copy, q).s.v = "inf"

C13_Witness ==
    /\ scoreOut.app_done /\ scoreOut.gen_done
    /\ QOpcos \in DOMAIN scoreApp /\ scoreApp[QOpcos] = AnsDict(TokRisk, SNum(10))
    /\ QName \in DOMAIN scoreApp /\ scoreApp[QName] = AnsDict(TextOkay, SNum(5))
    /\ QUsage \in DOMAIN scoreApp /\ scoreApp[QUsage] = AnsDict(TokX, SNum(8))
    /\ scoreOut.app.blocks["Strategic Fit"].qa[2].s = Finite(4)
    /\ scoreOut.app.blocks["Strategic Fit"].qa[1].s = Finite(5)
    /\ scoreOut.app.blocks["User Value"].qa[1].s = Finite(0)
    /\ ~scoreOut.app.raised

\* the questions of a block that score above 0, and the doubled sum of their scores
PositiveRows(qa) == {i \in 1..Len(qa) : qa[i].s.inf \/ qa[i].s.x2 > 0}

ClaimedFinalScore(qa) ==
    IF PositiveRows(qa) = {} THEN 1
    ELSE IF \E i \in PositiveRows(qa) : qa[i].s.inf THEN 5
    ELSE LET rawSum2 == SumOver([i \in PositiveRows(qa) |-> qa[i].s.x2], PositiveRows(qa))
             rounded == RoundHalfEven(rawSum2, 2 * Cardinality(PositiveRows(qa)))
         IN  IF rounded < 1 THEN 1 ELSE IF rounded > 5 THEN 5 ELSE rounded

\* C14: for every input calculate_score gives each block a finalScore that is
\* 1 when no question scores above 0, else the average of the positive
\* question scores rounded and clamped into 1..5; never 0, never missing.
C14_FinalScore ==
    \A r \in ScoreResults :
        /\ ~r.raised
        /\ \A b \in Blocks :
            /\ r.blocks[b].score \in 1..5
            /\ r.blocks[b].score = ClaimedFinalScore(r.blocks[b].qa)

(***************************************************************************)
(* Range of the indices                                                    *)
(***************************************************************************)
\* the weight sum the copy of the aggregator that ran divides by
UsedWeightSum(group) ==
    CASE aggOut.op \in {"ai", "web"} -> AiWeightSum(weights, group)
      [] aggOut.op = "xl" -> XlWeightSum(weights, group)
      [] OTHER -> XlWeightSum(ExcelWeightDict(weights), group)

\* C15: with block scores in 1..5 and non-negative weights, an index whose
\* group has a positive weight sum lies in 0..100 (0..1000 tenths).
C15_IndexRange ==
    (aggOut.op # "none" /\ aggOut.shown) =>
        /\ UsedWeightSum(business_blocks) > 0 => (aggOut.bvi >= 0 /\ aggOut.bvi <= 1000)
        /\ UsedWeightSum(tech_blocks) > 0 => (aggOut.thi >= 0 /\ aggOut.thi <= 1000)

C15_Witness ==
    /\ aggOut.op = "ai" /\ aggOut.shown
    /\ weights # SYNERGY_BLOCKS /\ DOMAIN weights = Blocks
    /\ UsedWeightSum(business_blocks) > 0
    /\ Scored(business_blocks) /\ \A b \in business_blocks : scores[b] = MaxScore
    /\ aggOut.bvi = 1000

(***************************************************************************)
(* Properties of the decision matrix                                       *)
(***************************************************************************)
ClaimedSubcategory(recommendation, bvi, thi, architecture, maintainability) ==
    CASE recommendation = "ELIMINATE" ->
            IF thi < 400 THEN "Replace" ELSE IF bvi > 500 THEN "Retire" ELSE "Absorbed"
      [] recommendation = "INVEST" -> "Absorb"
      [] recommendation = "EVOLVE" ->
            IF architecture <= 2 THEN "Modernize"
            ELSE IF maintainability <= 2 THEN "Migrate"
            ELSE IF bvi > 750 THEN "Enhance"
            ELSE IF thi < 750 THEN "Refactor"
            ELSE "Upgrade"
      [] OTHER -> IF bvi > 500 THEN "Internalize" ELSE "Maintain"

\* C16: the derived subcategory is Replace / Retire / Absorbed under ELIMINATE,
\* Absorb under INVEST, Modernize / Migrate / Enhance / Refactor / Upgrade under
\* EVOLVE and Internalize / Maintain under MAINTAIN, by the stated thresholds.
C16_Subcategory ==
    (detailOut.op = "derive" /\ detailIn.recommendation \in Recommendations) =>
        detailOut.subcategory =
            ClaimedSubcategory(detailIn.recommendation, detailIn.bvi, detailIn.thi,
                               detailIn.arch_score, detailIn.maint_score)

C16_Witness ==
    /\ detailOut.op = "derive"
    /\ detailIn.recommendation = "EVOLVE"
    /\ detailIn.arch_score = 3 /\ detailIn.maint_score = 3
    /\ detailIn.bvi = 750 /\ detailIn.thi = 749
    /\ detailOut.subcategory = "Refactor"

\* C17: every (recommendation, subcategory, priority) the derivation returns
\* is a row of MATRIX_CONFIG, is a valid subcategory of its recommendation for
\* the calculator's validation, and has the same priority in PRIORITY_MAP and
\* in the export's lookup.
C17_OneMatrix ==
    (detailOut.op = "derive" /\ detailIn.recommendation \in Recommendations) =>
        /\ \E i \in 1..Len(MATRIX_CONFIG) :
                /\ MATRIX_CONFIG[i][1] = detailIn.recommendation
                /\ MATRIX_CONFIG[i][2] = detailOut.subcategory
                /\ MATRIX_CONFIG[i][3] = detailOut.priority
        /\ detailOut.subcategory \in SUBCATEGORY_OPTIONS[detailIn.recommendation]
        /\ WebValid(detailOut.subcategory, detailIn.recommendation)
        /\ WebPriority(detailOut.subcategory, FALSE) = detailOut.priority
        /\ ExcelPriority(detailIn.recommendation, detailOut.subcategory, FALSE) = detailOut.priority

\* C18: with the quick-win flag a P2 base priority becomes a P1 priority and a
\* P3 base priority a P2 priority, a P1 base priority stays; without the flag
\* the priority is the base priority; the calculator page and the Excel
\* export show the same priority.
C18_QuickWin ==
    (detailOut.op \in {"web", "excel"} /\ detailIn.subcategory # "") =>
        LET base == PRIORITY_MAP[detailIn.subcategory]
        IN  /\ ~detailIn.quick_win => detailOut.priority = base
            /\ (detailIn.quick_win /\ PriorityLevel(base) = "P1") => detailOut.priority = base
            /\ (detailIn.quick_win /\ PriorityLevel(base) = "P2") =>
                    PriorityLevel(detailOut.priority) = "P1"
            /\ (detailIn.quick_win /\ PriorityLevel(base) = "P3") =>
                    PriorityLevel(detailOut.priority) = "P2"
            /\ detailOut.priority = WebPriority(detailIn.subcategory, detailIn.quick_win)
            /\ detailOut.priority =
                    ExcelPriority(detailIn.recommendation, detailIn.subcategory, detailIn.quick_win)

C18_Witness ==
    /\ detailOut.op = "excel"
    /\ detailIn.quick_win
    /\ detailIn.subcategory = "Maintain"
    /\ detailIn.recommendation = "EVOLVE"
    /\ detailOut.priority = "P2 - Quick Win"

(***************************************************************************)
(* Properties of the stored human decision                                 *)
(***************************************************************************)
Kept(a) ==
    /\ portfolio.apps[a].subcategory = storeLog.before[a].subcategory
    /\ portfolio.apps[a].quick_win = storeLog.before[a].quick_win

\* C19: the stored subcategory and quick-win flag of an application change
\* only by an edit of its own calculator row or by Clear All Subcategories;
\* a score change, a weight change, an upload, an export or a render keeps
\* them, also when they no longer fit the current recommendation.
C19_HumanDecisionKept ==
    storeLog.op # "none" =>
        /\ storeLog.op \notin {"edit", "clear"} => \A a \in Apps : Kept(a)
        /\ storeLog.op = "edit" => \A a \in Apps \ {storeLog.app} : Kept(a)

C19_Witness ==
    /\ storeLog.op = "score" /\ storeLog.app = "a1"
    /\ portfolio.apps["a1"].subcategory = "Enhance"
    /\ portfolio.apps["a1"].quick_win
    /\ RowDecision(portfolio.apps["a1"], portfolio.weights) = "ELIMINATE"
    /\ portfolio.apps["a2"].subcategory = "Maintain"

(***************************************************************************)
(* Properties of the transcript answers                                    *)
(***************************************************************************)
Returned(row) ==
    \E i \in 1..Len(extracted) :
        /\ extracted[i].question = row.question
        /\ extracted[i].answer = row.answer
        /\ extracted[i].confidence = row.confidence

\* C20: a returned entry becomes a transcript answer only with a non-empty
\* answer and a confidence strictly above 0.3, and a stored transcript
\* answer reaches score suggestion, and marks its block as having data,
\* only with a confidence strictly above 0.5; exactly 0.3 and exactly 0.5
\* stay out.
C20_ConfidenceGates ==
    LET stored == transcriptOut.stored
        combined == transcriptOut.combined
    IN  /\ \A i \in 1..Len(stored) :
              /\ Returned(stored[i])
              /\ stored[i].answer # ""
              /\ stored[i].confidence # NoKey /\ stored[i].confidence > 30
        /\ \A i \in 1..Len(combined) :
              /\ \E j \in 1..Len(stored) : stored[j] = combined[i]
              /\ combined[i].confidence > 50
        /\ \A b \in transcriptOut.blocks_with_data :
              \E j \in 1..Len(stored) :
                  /\ stored[j].confidence > 50
                  /\ b \in BlocksOf(stored[j].question)

C20_Witness ==
    /\ transcriptOut.op = "suggested"
    /\ extracted = <<[question |-> QUnlisted, answer |-> "Yes", confidence |-> 30],
                     [question |-> QUnlisted, answer |-> "Yes", confidence |-> 50],
                     [question |-> QName, answer |-> "Yes", confidence |-> 51]>>
    /\ Len(transcriptOut.stored) = 2
    /\ Len(transcriptOut.combined) = 1
    /\ transcriptOut.blocks_with_data = {"Strategic Fit"}

(***************************************************************************)
(* Properties of the transcript handlers                                   *)
(***************************************************************************)
Failed(entry) == entry.outcome \in {"throws", "bad_json", "malformed"}

NoRowsAdded(file) == RowCounts(meetingDb)[file] = batchLog.rows_before[file]

\* C21: when the language service throws or returns malformed output for a
\* transcript of a batch, no answer is stored for that transcript, and the
\* transcripts after it in the batch are still handled.
C21_ServiceFailureIsolated ==
    batchLog.op \in {"process", "queue"} =>
        \A i \in 1..Len(batchLog.files) :
            Failed(batchLog.files[i]) =>
                /\ NoRowsAdded(batchLog.files[i].file)
                /\ \A j \in (i + 1)..Len(batchLog.files) :
                       batchLog.files[j].called \/ batchLog.files[j].was = "processed"

\* C26: the table holds at most one transcript answer per transcript and
\* question.
C26_OneAnswerPerQuestion ==
    \A i, j \in 1..Len(meetingDb.answers) :
        /\ meetingDb.answers[i].transcript = meetingDb.answers[j].transcript
        /\ meetingDb.answers[i].question = meetingDb.answers[j].question
        => i = j

BestIndexes(Score(_)) ==
    { i \in 1..Len(ALL_QUESTIONS_FLAT) :
        \A j \in 1..Len(ALL_QUESTIONS_FLAT) : ~RatioLess(Score(i), Score(j)) }

WebScore(i) == Ratio(Lower(matchIn), Lower(ALL_QUESTIONS_FLAT[i]))

CloseScore(i) == Ratio(ALL_QUESTIONS_FLAT[i], matchIn)

ReachesThreshold(Score(_)) ==
    \E i \in 1..Len(ALL_QUESTIONS_FLAT) : Score(i).num * 4 >= 3 * Score(i).den

FirstBest(Score(_)) ==
    ALL_QUESTIONS_FLAT[CHOOSE i \in BestIndexes(Score) : \A j \in BestIndexes(Score) : i <= j]

\* C22: in each parser a raw question text is matched exactly when its best
\* similarity to a master question is at least 0.75; 0.75 itself matches.
C22_MatchThreshold ==
    /\ matchOut.web.done => (matchOut.web.match # NoMatch <=> ReachesThreshold(WebScore))
    /\ matchOut.wb.done => (matchOut.wb.match # NoMatch <=> ReachesThreshold(CloseScore))
    /\ matchOut.gen.done => (matchOut.gen.match # NoMatch <=> ReachesThreshold(CloseScore))

\* C23: when two master questions share the highest similarity to the raw
\* text, the match is the one that comes first in the master list.
C23_FirstOfTiedWins ==
    /\ matchOut.web.done /\ matchOut.web.match # NoMatch /\ Cardinality(BestIndexes(WebScore)) > 1
          => matchOut.web.match = FirstBest(WebScore)
    /\ matchOut.wb.done /\ matchOut.wb.match # NoMatch /\ Cardinality(BestIndexes(CloseScore)) > 1
          => matchOut.wb.match = FirstBest(CloseScore)

(***************************************************************************)
(* Properties of the approved scores                                       *)
(***************************************************************************)
\* C24: after any sequence of automatic scorings, recalculations and manual
\* edits there is at most one approved score row per block of the
\* application.
C24_OneApprovedScorePerBlock ==
    \A b \in ApprovalBlocks : Len(BlockRows(synergy, b)) <= 1

ManuallyEdited(rows, b) ==
    \E i \in 1..Len(rows) : rows[i].block_name = b /\ rows[i].approved_by = ManualApprover

\* C25: an automatic scoring or recalculation leaves a manually edited block
\* as it was: its rows are the same, and so is the score used for it.
C25_ManualScoreKept ==
    approvalLog.op \in {"upload", "recalc"} =>
        \A b \in ApprovalBlocks :
            ManuallyEdited(approvalLog.before, b) =>
                /\ BlockRows(synergy, b) = BlockRows(approvalLog.before, b)
                /\ UsedScores(synergy)[b] = UsedScores(approvalLog.before)[b]

\* C27: an automatic scoring whose score-suggestion call failed leaves the
\* approved rows as they were.
C27_FailureKeepsScores ==
    approvalLog.op \in {"upload", "recalc"} /\ approvalLog.failed =>
        synergy = approvalLog.before

(***************************************************************************)
(* The two aggregators compared                                            *)
(***************************************************************************)
\* C29: on the same scores and weights ai_processor.calculate_bvi_thi and
\* excel_generator.calculate_bvi_thi return the same (BVI, THI) and the same
\* recommendation follows, also when a block has no score or no weight.
C29_AggregatorsAgree ==
    LET ai == AiCalculateBviThi(scores, weights)
        xl == XlCalculateBviThi(scores, weights)
    IN  /\ aggOut.op = "ai" =>
              /\ <<aggOut.bvi, aggOut.thi>> = xl
              /\ aggOut.rec = XlGetRecommendation(xl[1], xl[2])
        /\ aggOut.op = "xl" =>
              /\ <<aggOut.bvi, aggOut.thi>> = ai
              /\ aggOut.rec = AiGetRecommendation(ai[1], ai[2])

(***************************************************************************)
(* Properties of the sheet parsers                                         *)
(***************************************************************************)
\* C30: while a sheet is parsed, no row replaces a non-empty answer of a
\* master question with the empty string; a row with an empty question cell
\* and an answer does not empty the answer of the question matched before it.
C30_AnswerNeverBlanked ==
    /\ sheetOut.wb.done => ~sheetOut.wb.blanked
    /\ sheetOut.gen.done => ~sheetOut.gen.blanked

====
